---- MODULE Spec2Model ----
(***************************************************************************)
(* Model of the OpenProbe backend: the in-memory Session Store             *)
(* (SessionManager), the Run Scheduler (SearchService), the adapter that   *)
(* turns graph events into steps (DeepSearchAdapter) and the Event Bus     *)
(* (WebSocketManager).                                                     *)
(*                                                                         *)
(* The backend runs on one asyncio event loop.  A coroutine runs without   *)
(* interruption from one suspension point (an await on I/O, a sleep or     *)
(* another task) to the next, so every action below is one such run: the   *)
(* whole synchronous stretch of code between two suspensions.  The Python  *)
(* methods are operators on a record w of the whole program state.         *)
(***************************************************************************)
EXTENDS Integers, Sequences, FiniteSets, TLC

\* ---------------------------------------------------------------- bounds
MaxSearches == 2        \* start requests per behaviour (search ids are fresh uuids)
MaxClients == 2         \* websocket connections per behaviour (client ids are fresh)
MaxBroadcastSearches == 1   \* searches started while broadcasts are examined
MaxLifecycleClients == 1    \* connections while the session lifecycle is examined
MaxNodes == 1           \* node events one run of the graph yields before it ends
MaxLlmSteps == 2        \* LLM steps of the plan whose results master events report
MaxHeartbeats == 1      \* wake-ups of the heartbeat loop
MaxNewChats == 1        \* new_chat requests
MaxCancels == 1         \* cancel requests per behaviour
MaxTime == 400          \* the clock stops there (seconds)
TickSeconds == 100      \* seconds the clock advances at once
MaxRunNodes == 3        \* node events of the one search of a run
MaxRunSteps == 8        \* the recursion limit of the run of a search with its session
MaxGraphRuns == 1       \* runs of the graph taken on their own
MaxPlanLen == 2         \* search queries in one plan
MaxLineLen == 3         \* tokens in one line of a text
MaxLines == 2           \* lines in a text
MaxAddSteps == 4        \* add_step calls on one step list
MaxStepIds == 3         \* distinct step ids handed to add_step

\* Settings.SEARCH_TIMEOUT (seconds)
SEARCH_TIMEOUT == 300

\* Settings.MAX_CONCURRENT_SEARCHES is read from the environment (config.py
\* gives the default 10); the model runs the deployment configured with
\* MAX_CONCURRENT_SEARCHES=1, so that MaxSearches sessions can exceed it.
MAX_CONCURRENT_SEARCHES == 1
HTTP_400_BAD_REQUEST == 400
HTTP_422_VALIDATION == 422
HTTP_500_INTERNAL == 500
max_length == 1000
MaxPad == 1
MaxSubmits == 2
MaxCancelCalls == 2
MaxInbound == 3
MaxBeats == 2
MaxSweepTime == 2700
cleanup_interval == 300
session_timeout == 1800
MaxSourceSteps == 2
MaxStepSources == 2
HTTP_404_NOT_FOUND == 404
HTTP_409_CONFLICT == 409

SearchIds == 1..MaxSearches
Streams == 0..MaxSearches
Clients == 1..MaxClients

\* SearchStatus (models/search.py)
THINKING == "thinking"
COMPLETED == "completed"
ERROR == "error"
CANCELLED == "cancelled"
TerminalStatus == {COMPLETED, ERROR, CANCELLED}

\* The node whose event the graph yields after k node events (master, whose
\* events make no step here, apart): master goes to plan first, and from a
\* plan on to search.
next_node(k) == IF k = 0 THEN "plan" ELSE "search"

NoStep == [node |-> "none", n |-> -1]

\* A slot of the store that holds no session.
NoSession ==
    [stored |-> FALSE, status |-> "idle", steps |-> <<>>, final_answer |-> "none",
     error |-> "none", start_time |-> 0, end_time |-> -1, duration_seconds |-> -1]

NoRef == [sid |-> 0, n |-> 0]
NoFrame == [state |-> "idle", msg |-> NoRef, di_used |-> 0, di_pos |-> 0, di_len |-> 0,
            client |-> 0, disconnected_clients |-> {}, audience |-> {}]

NoTask == [pc |-> "none", must_cancel |-> FALSE, step_counter |-> 0, nodes |-> 0,
           node |-> "none", label |-> "none", answer |-> "none", outcome |-> "none",
           epoch |-> 0, step_no |-> 0, llm_results |-> 0, llm_prev |-> 0, llm_i |-> 0]

\* No run of the graph has been started.
NoRun == [node |-> "none"]
NoRuns == [s \in SearchIds |-> NoRun]

\* No function has been applied on its own.
NoProbe == [calls |-> 0]

TaskProc(s) == <<"task", s>>
CancelProc(s) == <<"cancel", s>>
NewChatProc == <<"new_chat", 0>>
HeartbeatProc == <<"heartbeat", 0>>
Procs == {TaskProc(s) : s \in SearchIds} \cup {CancelProc(s) : s \in SearchIds}
            \cup {NewChatProc, HeartbeatProc}

VARIABLES
    sessions,         \* SessionManager._sessions: search id -> SearchResult
    active,           \* SessionManager._active_searches
    running_tasks,    \* keys of SearchService._running_tasks
    task,             \* the asyncio task of each search id
    next_id,          \* how many search ids have been handed out
    connections,      \* keys of WebSocketManager._connections
    client_metadata,  \* keys of WebSocketManager._client_metadata
    next_client,      \* how many client ids have been handed out
    endpoint,         \* websocket_endpoint coroutine of each client
    sock,             \* the peer's side of each websocket
    received,         \* what each client's socket was handed, per stream, in order
    emitted,          \* every message the server built, per stream, in order
    frame,            \* broadcast_message activation of each coroutine
    new_chat,         \* the new_chat request handler
    cancel,           \* the cancel request handler of each search id
    heartbeat,        \* the heartbeat loop
    now,              \* datetime.utcnow()
    cleanup,          \* SessionManager's cleanup task
    processed_llm_steps, \* DeepSearchAdapter._processed_llm_steps
    graph,            \* a run of the compiled graph: its AgentState and next node
    probe             \* arguments and result of a function applied on its own

vars == <<sessions, active, running_tasks, task, next_id, connections, client_metadata,
          next_client, endpoint, sock, received, emitted, frame, new_chat, cancel,
          heartbeat, now, cleanup, processed_llm_steps, graph, probe>>

\* The program state as one record, and its commit as the next state.
World ==
    [sessions |-> sessions, active |-> active, running_tasks |-> running_tasks,
     task |-> task, next_id |-> next_id, connections |-> connections,
     client_metadata |-> client_metadata, next_client |-> next_client,
     endpoint |-> endpoint, sock |-> sock, received |-> received, emitted |-> emitted,
     frame |-> frame, new_chat |-> new_chat, cancel |-> cancel, heartbeat |-> heartbeat,
     now |-> now, cleanup |-> cleanup, processed_llm_steps |-> processed_llm_steps,
     graph |-> graph, probe |-> probe]

\* The value of e with x bound to the value of v: v is evaluated once,
\* however often e uses x.
Let1(v, e(_)) == CHOOSE y \in {e(x) : x \in {v}} : TRUE

Commit(world) ==
    \E w \in {world} :
        /\ sessions' = w.sessions
        /\ active' = w.active
        /\ running_tasks' = w.running_tasks
        /\ task' = w.task
        /\ next_id' = w.next_id
        /\ connections' = w.connections
        /\ client_metadata' = w.client_metadata
        /\ next_client' = w.next_client
        /\ endpoint' = w.endpoint
        /\ sock' = w.sock
        /\ received' = w.received
        /\ emitted' = w.emitted
        /\ frame' = w.frame
        /\ new_chat' = w.new_chat
        /\ cancel' = w.cancel
        /\ heartbeat' = w.heartbeat
        /\ now' = w.now
        /\ cleanup' = w.cleanup
        /\ processed_llm_steps' = w.processed_llm_steps
        /\ graph' = w.graph
        /\ probe' = w.probe

\* ------------------------------------------------------- SessionManager

\* SessionManager.create_search_session: a fresh id, status THINKING, no
\* steps, added to the active set.
create_search_session(w, sid) ==
    [w EXCEPT !.sessions[sid] = [NoSession EXCEPT !.stored = TRUE, !.status = THINKING,
                                                  !.start_time = w.now],
              !.active = @ \cup {sid},
              !.next_id = sid]

\* SessionManager.get_session(...) is None
session_missing(w, sid) == ~w.sessions[sid].stored

\* A faulty update_session_status that leaves the search in the active set.
update_session_status_keeps_active(w, sid, status, error) ==
    LET s1 == [w.sessions[sid] EXCEPT !.status = status,
                                      !.error = IF error # "none" THEN error ELSE @]
        s2 == IF status \in TerminalStatus
                THEN [s1 EXCEPT !.end_time = w.now,
                                !.duration_seconds = w.now - s1.start_time]
                ELSE s1
    IN [w EXCEPT !.sessions[sid] = s2]

\* SessionManager.update_session_status, for a stored session (the caller
\* takes the SearchException branch when session_missing).
update_session_status(world, sid, status, error) ==
    Let1(world, LAMBDA w :
        LET s1 == [w.sessions[sid] EXCEPT !.status = status,
                                          !.error = IF error # "none" THEN error ELSE @]
            s2 == IF status \in TerminalStatus
                    THEN [s1 EXCEPT !.end_time = w.now,
                                    !.duration_seconds = w.now - s1.start_time]
                    ELSE s1
        IN [w EXCEPT !.sessions[sid] = s2,
                     !.active = IF status \in TerminalStatus THEN @ \ {sid} ELSE @])

\* The index of the step with this id in a step list, 0 when there is none.
existing_step_index(steps, id) ==
    IF \E i \in 1..Len(steps) : steps[i].id = id
      THEN CHOOSE i \in 1..Len(steps) :
             /\ steps[i].id = id
             /\ \A j \in 1..(i - 1) : steps[j].id # id
      ELSE 0

\* A faulty add_step that always appends.
add_step_appends(steps, step) == Append(steps, step)

\* SessionManager.add_step on the step list of a stored session.
add_step_to(steps, step) ==
    LET i == existing_step_index(steps, step.id)
    IN IF i # 0 THEN [steps EXCEPT ![i] = step] ELSE Append(steps, step)

\* A faulty add_step that stores nothing: the step updates that follow it
\* report a step the store does not hold.
add_step_dropped(w, sid, step) == w

\* SessionManager.add_step, for a stored session.
add_step(world, sid, step) ==
    Let1(world, LAMBDA w :
        [w EXCEPT !.sessions[sid].steps = add_step_to(@, step)])

\* SessionManager.set_final_answer, for a stored session.
set_final_answer(world, sid, answer) ==
    Let1(world, LAMBDA w :
        update_session_status([w EXCEPT !.sessions[sid].final_answer = answer],
                              sid, COMPLETED, "none"))

\* SessionManager.is_search_active
is_search_active(w, sid) == sid \in w.active

\* SessionManager.cancel_search raises SearchException
session_cancel_raises(w, sid) == session_missing(w, sid) \/ sid \notin w.active

\* SessionManager.cancel_search, when it does not raise.
session_cancel_search(w, sid, reason) ==
    update_session_status(w, sid, CANCELLED, reason)

\* SessionManager.clear_all_sessions
clear_all_sessions(w) ==
    [w EXCEPT !.sessions = [s \in SearchIds |-> NoSession], !.active = {}]

\* ----------------------------------------------------- WebSocketManager

\* A message as the server builds it (models/websocket.py): its type, the
\* search it belongs to (0 for none), and the payload fields the claims read.
Message(type, sid) ==
    [type |-> type, sid |-> sid, step |-> NoStep, status |-> "none", result |-> "none",
     final_answer |-> "none",
     total_steps |-> -1, recoverable |-> FALSE, client |-> 0, resets |-> 0]

\* How many session resets have been built so far.
ResetCount(w) == Cardinality({i \in 1..Len(w.emitted[0]) : w.emitted[0][i].type = "session_reset"})

\* The history of built messages: message m joins the stream of its search
\* (stream 0 holds the messages of no search), stamped with the number of
\* session resets built before it.
Emit(world, m) ==
    Let1(world, LAMBDA w :
        [w EXCEPT !.emitted[m.sid] = Append(@, [m EXCEPT !.resets = ResetCount(w)])])

\* The message last built in a stream, as a reference.
LastRef(w, sid) == [sid |-> sid, n |-> Len(w.emitted[sid])]

\* WebSocketManager.send_step_update builds a StepUpdateMessage
StepUpdateMessage(sid, step) ==
    [Message("step_update", sid) EXCEPT !.step = step.id, !.status = step.status]

\* WebSocketManager.send_search_complete builds a SearchCompleteMessage
SearchCompleteMessage(sid, result, total_steps) ==
    [Message("search_complete", sid) EXCEPT !.result = result, !.final_answer = result,
                                            !.total_steps = total_steps]

\* WebSocketManager.send_error builds an ErrorMessage: recoverable=True
ErrorMessage(sid) == [Message("error", sid) EXCEPT !.recoverable = TRUE]

\* WebSocketManager.send_session_reset builds a SessionResetMessage
SessionResetMessage == Message("session_reset", 0)

\* WebSocketManager._broadcast_heartbeat builds a HeartbeatMessage
HeartbeatMessage == Message("heartbeat", 0)

\* WebSocketManager.connect_client builds a ConnectionMessage
ConnectionMessage(c) == [Message("connection", 0) EXCEPT !.client = c]

\* WebSocketManager.disconnect_client
disconnect_client(w, c) ==
    IF c \in w.connections
      THEN [w EXCEPT !.connections = @ \ {c}, !.client_metadata = @ \ {c}]
      ELSE w

\* The clean-up loop of broadcast_message: disconnect_client for every
\* collected client (the order does not matter, each call only removes).
disconnect_clients(w, cs) ==
    [w EXCEPT !.connections = @ \ cs,
              !.client_metadata = @ \ (cs \cap w.connections)]

\* next() of the iterator over self._connections.items() (CPython's
\* dictiter_iternextitem).  The entries of the dict are the client ids in the
\* order they were inserted, 1..next_client, a deleted one leaving a hole.
\* -1: RuntimeError (the dict changed during iteration); 0: StopIteration;
\* otherwise the next client.
RuntimeError == -1
StopIteration == 0

\* A faulty iteration over the clients that were registered when the
\* broadcast began, whatever the registry holds now.
list_next(w, f) ==
    LET rest == {c \in f.di_pos..w.next_client : c \in f.audience}
    IN IF rest = {} THEN StopIteration
       ELSE CHOOSE c \in rest : \A d \in rest : c <= d

dict_next(w, f) ==
    LET rest == {c \in f.di_pos..w.next_client : c \in w.connections}
    IN IF f.di_used # Cardinality(w.connections) THEN RuntimeError
       ELSE IF rest = {} THEN StopIteration
       ELSE IF f.di_len = 0 THEN RuntimeError
       ELSE CHOOSE c \in rest : \A d \in rest : c <= d

\* websocket.send_text: the message is handed to an open socket at the call
\* (and the await suspends); on a closed socket the call raises.
send_text_raises(w, c) == w.sock[c] # "open"
send_text(w, c, m) == [w EXCEPT !.received[c][m.sid] = Append(@, m.n)]

\* The for loop of broadcast_message for coroutine p, run from the iterator's
\* position to the next suspension (a send that went out), to the end of the
\* method ("returned") or to the RuntimeError that leaves it ("raised").
RECURSIVE broadcast_loop(_, _)
broadcast_loop(world, p) ==
    Let1(world, LAMBDA w :
        LET f == w.frame[p]
            c == dict_next(w, f)
            f2 == [f EXCEPT !.di_pos = c + 1, !.di_len = @ - 1, !.client = c]
        IN IF c = RuntimeError THEN [w EXCEPT !.frame[p].state = "raised"]
           ELSE IF c = StopIteration
             THEN [disconnect_clients(w, f.disconnected_clients)
                     EXCEPT !.frame[p].state = "returned"]
           ELSE IF send_text_raises(w, c)
             THEN broadcast_loop(
                    [w EXCEPT !.frame[p] = [f2 EXCEPT !.disconnected_clients = @ \cup {c}]], p)
           ELSE [send_text(w, c, f.msg) EXCEPT !.frame[p] = [f2 EXCEPT !.state = "sending"]])

\* The subscribers that are registered with an open socket.
Live(w) == {c \in w.connections : w.sock[c] = "open"}

\* WebSocketManager.broadcast_message called by coroutine p with a message
\* just built: the message joins the history, and the loop runs to its first
\* suspension.
broadcast_message(world, p, m) ==
    Let1(world, LAMBDA w :
        LET w1 == Emit(w, m)
            n == Cardinality(w.connections)
        IN IF w.connections = {}
             THEN [w1 EXCEPT !.frame[p] = [NoFrame EXCEPT !.state = "returned"]]
             ELSE broadcast_loop(
                    [w1 EXCEPT !.frame[p] = [NoFrame EXCEPT !.msg = LastRef(w1, m.sid),
                                                            !.di_used = n, !.di_pos = 1,
                                                            !.di_len = n,
                                                            !.audience = Live(w)]], p))

\* broadcast_message resumed after a send_text: last_seen is written (a
\* KeyError when the client was removed meanwhile, which the except clause
\* turns into a collected client), and the loop goes on.
broadcast_resume(world, p) ==
    Let1(world, LAMBDA w :
        LET c == w.frame[p].client
            w1 == IF c \in w.client_metadata THEN w
                  ELSE [w EXCEPT !.frame[p].disconnected_clients = @ \cup {c}]
        IN broadcast_loop(w1, p))

Suspended(w, p) == w.frame[p].state = "sending"
Raised(w, p) == w.frame[p].state = "raised"
DropFrame(w, p) == [w EXCEPT !.frame[p] = NoFrame]

\* -------------------------------- SearchService._execute_search_task

\* The task ends: the finally clause drops it from the registry.
task_done(world, s, outcome) ==
    Let1(world, LAMBDA w :
        [w EXCEPT !.task[s].pc = "done", !.task[s].outcome = outcome,
                  !.task[s].must_cancel = FALSE, !.task[s].label = "none",
                  !.frame[TaskProc(s)] = NoFrame,
                  !.running_tasks = @ \ {s}])

\* A faulty step whose id leaves the step counter out.
ThinkingStep_without_counter(node, n, status) ==
    [id |-> [node |-> node, n |-> 0], status |-> status]

\* ThinkingStep built by _create_step / _create_final_step
ThinkingStep(node, n, status) == [id |-> [node |-> node, n |-> n], status |-> status]

RECURSIVE task_after_broadcast(_, _)
RECURSIVE handle_master_node(_, _, _)
RECURSIVE master_returned(_, _)

\* llm_step_id = f"{search_id}_llm_{step_name}", for the plan step #E<k>
llm_step_id(s, k) == <<s, k>>

\* The task of search s awaits a broadcast of m at the place named label:
\* it suspends in a send, or the broadcast is over at once and the code
\* after it runs.
task_broadcast(world, s, label, m) ==
    Let1(world, LAMBDA w :
        LET w1 == broadcast_message([w EXCEPT !.task[s].label = label], TaskProc(s), m)
        IN IF Suspended(w1, TaskProc(s)) THEN [w1 EXCEPT !.task[s].pc = "send"]
           ELSE task_after_broadcast(w1, s))

\* except Exception in _create_step: send_error("Error processing ... step")
create_step_failed(world, s) ==
    Let1(world, LAMBDA w :
        task_broadcast(w, s, "step_error", ErrorMessage(s)))

\* _create_step returned: the loop of execute_search counts the step and
\* awaits the next event of the graph.
create_step_returned(world, s) ==
    Let1(world, LAMBDA w :
        IF w.task[s].node = "llm"
          THEN handle_master_node(
                   [w EXCEPT !.processed_llm_steps = @ \cup {llm_step_id(s, w.task[s].llm_i)},
                             !.task[s].label = "none"],
                   s, w.task[s].llm_i + 1)
          ELSE [w EXCEPT !.task[s].pc = "stream", !.task[s].step_counter = @ + 1,
                         !.task[s].node = "none", !.task[s].label = "none",
                         !.task[s].step_no = 0])

\* A faulty handler of DeepSearchIntegrationException that ends the task and
\* records nothing.
integration_error_unrecorded(w, s) == task_done(w, s, "exception")

\* except DeepSearchIntegrationException in _execute_search_task: the status
\* becomes ERROR and an error message goes out.  update_session_status
\* raises in the handler when the session is gone, and the task ends with
\* that exception.
integration_error(world, s) ==
    Let1(world, LAMBDA w :
        IF session_missing(w, s) THEN task_done(w, s, "exception")
        ELSE task_broadcast(update_session_status(w, s, ERROR, "Integration error"),
                            s, "integration_error", ErrorMessage(s)))

\* except Exception in _execute_search_task
unexpected_error(world, s) ==
    Let1(world, LAMBDA w :
        IF session_missing(w, s) THEN task_done(w, s, "exception")
        ELSE task_broadcast(update_session_status(w, s, ERROR, "Unexpected error"),
                            s, "unexpected_error", ErrorMessage(s)))

\* A faulty CancelledError handler that marks the session cancelled and lets
\* the run go on at the graph's stream.
cancelled_error_resumes(w, s) ==
    IF session_missing(w, s) THEN task_done(w, s, "exception")
    ELSE [update_session_status(w, s, CANCELLED, "Search was cancelled")
            EXCEPT !.task[s].pc = "stream", !.task[s].must_cancel = FALSE,
                   !.task[s].label = "none"]

\* except asyncio.CancelledError in _execute_search_task: the status becomes
\* CANCELLED and the task ends normally.
cancelled_error(world, s) ==
    Let1(world, LAMBDA w :
        IF session_missing(w, s) THEN task_done(w, s, "exception")
        ELSE task_done(update_session_status(w, s, CANCELLED, "Search was cancelled"),
                       s, "returned"))

\* A faulty continuation that announces the completion and records no
\* answer.
search_returned_unrecorded(w, s, answer) ==
    task_broadcast(w, s, "search_complete",
                   SearchCompleteMessage(s, answer, Len(w.sessions[s].steps)))

\* execute_search has returned answer: set_final_answer, then
\* send_search_complete with the number of stored steps.
search_returned(world, s, answer) ==
    Let1(world, LAMBDA w :
        IF session_missing(w, s) THEN unexpected_error(w, s)
        ELSE LET w1 == set_final_answer(w, s, answer)
             IN task_broadcast(w1, s, "search_complete",
                    SearchCompleteMessage(s, answer, Len(w1.sessions[s].steps))))

\* The code after an awaited broadcast of the task, by the place of the await.
task_after_broadcast(world, s) ==
    Let1(world, LAMBDA w :
        LET p == TaskProc(s)
            raised == Raised(w, p)
            label == w.task[s].label
            w0 == DropFrame(w, p)
        IN CASE label = "step_running" ->
                  IF raised THEN create_step_failed(w0, s)
                  ELSE [w0 EXCEPT !.task[s].pc = "sleep"]
             [] label = "step_completed" ->
                  IF raised THEN create_step_failed(w0, s) ELSE create_step_returned(w0, s)
             [] label = "step_error" ->
                  IF ~raised THEN create_step_returned(w0, s)
                  ELSE IF w0.task[s].node = "llm" THEN master_returned(w0, s)
                  ELSE integration_error(w0, s)
             [] label = "final_step" -> search_returned(w0, s, w0.task[s].answer)
             [] label = "search_complete" ->
                  IF raised THEN unexpected_error(w0, s) ELSE task_done(w0, s, "returned")
             [] label \in {"integration_error", "unexpected_error"} ->
                  task_done(w0, s, IF raised THEN "exception" ELSE "returned"))

\* DeepSearchAdapter._create_step up to its first await: the step is stored
\* as RUNNING and its update is broadcast.
create_step(world, s, node) ==
    Let1(world, LAMBDA w :
        LET step == ThinkingStep(node, w.task[s].step_counter, "running")
            w1 == [w EXCEPT !.task[s].node = node, !.task[s].nodes = @ + 1,
                            !.task[s].step_no = w.task[s].step_counter]
        IN IF session_missing(w1, s) THEN create_step_failed(w1, s)
           ELSE task_broadcast(add_step(w1, s, step), s, "step_running",
                               StepUpdateMessage(s, step)))

\* _create_step after asyncio.sleep(1.0): the step is marked COMPLETED,
\* stored again and broadcast again.
create_step_complete(world, s) ==
    Let1(world, LAMBDA w :
        LET step == ThinkingStep(w.task[s].node, w.task[s].step_no, "completed")
        IN IF session_missing(w, s) THEN create_step_failed(w, s)
           ELSE task_broadcast(add_step(w, s, step), s, "step_completed",
                               StepUpdateMessage(s, step)))

\* execute_search after _handle_master_node: the step counter advances by
\* the growth of _processed_llm_steps since the event arrived, and the loop
\* awaits the next event of the graph.
master_returned(world, s) ==
    Let1(world, LAMBDA w :
        [w EXCEPT !.task[s].pc = "stream",
                  !.task[s].step_counter =
                      @ + (Cardinality(w.processed_llm_steps) - w.task[s].llm_prev),
                  !.task[s].node = "none", !.task[s].label = "none",
                  !.task[s].step_no = 0, !.task[s].llm_i = 0])

\* _handle_master_node creates the step of plan step #E<i>: _create_step
\* with the counter step_counter + len(self._processed_llm_steps).
create_llm_step(world, s, i) ==
    Let1(world, LAMBDA w :
        LET n == w.task[s].step_counter + Cardinality(w.processed_llm_steps)
            step == ThinkingStep("llm", n, "running")
            w1 == [w EXCEPT !.task[s].node = "llm", !.task[s].step_no = n,
                            !.task[s].llm_i = i]
        IN IF session_missing(w1, s) THEN create_step_failed(w1, s)
           ELSE task_broadcast(add_step(w1, s, step), s, "step_running",
                               StepUpdateMessage(s, step)))

\* _handle_master_node from plan step #E<i> on: every LLM step with a
\* result whose id is not in _processed_llm_steps is created and its id
\* added.
handle_master_node(world, s, i) ==
    Let1(world, LAMBDA w :
        IF i > w.task[s].llm_results THEN master_returned(w, s)
        ELSE IF llm_step_id(s, i) \in w.processed_llm_steps
               THEN handle_master_node(w, s, i + 1)
        ELSE create_llm_step(w, s, i))

\* The graph's stream is over.  With a result in the final state
\* _create_final_step stores and broadcasts the final step (a missing
\* session is logged there), and the answer is returned; without one the
\* placeholder text is returned.
stream_finished(world, s, has_result) ==
    Let1(world, LAMBDA w :
        LET step == ThinkingStep("final_result", w.task[s].step_counter, "completed")
            w1 == [w EXCEPT !.task[s].answer = IF has_result THEN "answer" ELSE "no_answer"]
        IN IF ~has_result THEN search_returned(w1, s, "no_answer")
           ELSE IF session_missing(w1, s) THEN search_returned(w1, s, "answer")
           ELSE task_broadcast(add_step(w1, s, step), s, "final_step",
                               StepUpdateMessage(s, step)))

\* CancelledError thrown into the task at its await.  Inside the try block
\* the except clause handles it; in an except clause (the awaits of
\* send_error) it leaves the task, which ends cancelled.
task_cancelled(world, s) ==
    Let1(world, LAMBDA w :
        LET w0 == DropFrame(w, TaskProc(s))
        IN IF w.task[s].pc = "send" /\ w.task[s].label \in {"integration_error", "unexpected_error"}
             THEN task_done(w0, s, "cancelled")
             ELSE cancelled_error(w0, s))

\* ------------------------------------------ SearchService.cancel_search

\* The route cancel_search: a SearchException whose message holds "not
\* found" is answered 404, any other SearchException 400.  message is what
\* the service's exception says: "not active", "not found", or "other" for
\* the text of any other exception.
cancel_search_response(result, message) ==
    IF result = "ok" THEN 200
    ELSE IF message = "not found" THEN HTTP_404_NOT_FOUND
    ELSE HTTP_400_BAD_REQUEST

\* The routes get_search_status and get_search_result: 404 when get_session
\* returns None.
get_search_status_response(w, s) == IF session_missing(w, s) THEN HTTP_404_NOT_FOUND ELSE 200
get_search_result_response(w, s) == IF session_missing(w, s) THEN HTTP_404_NOT_FOUND ELSE 200

cancel_returned(w, s, result, message) ==
    [DropFrame(w, CancelProc(s)) EXCEPT !.cancel[s].pc = "done", !.cancel[s].result = result,
                                        !.cancel[s].status_code =
                                            cancel_search_response(result, message)]

\* DeepSearchAdapter.cancel_search as awaited by SearchService.cancel_search:
\* SessionManager.cancel_search, then send_error; any exception becomes the
\* SearchException the route reports.
adapter_cancel_search(w, s) ==
    IF session_cancel_raises(w, s)
      THEN cancel_returned(w, s, "error",
                           IF session_missing(w, s) THEN "not found" ELSE "not active")
    ELSE LET w1 == broadcast_message(session_cancel_search(w, s, "User cancelled"),
                                     CancelProc(s), ErrorMessage(s))
         IN IF Suspended(w1, CancelProc(s)) THEN [w1 EXCEPT !.cancel[s].pc = "send"]
            ELSE cancel_returned(w1, s, IF Raised(w1, CancelProc(s)) THEN "error" ELSE "ok",
                                 "other")

\* How many cancel requests have been made.
RECURSIVE SumCalls(_, _)
SumCalls(c, n) == IF n = 0 THEN 0 ELSE c[n].calls + SumCalls(c, n - 1)
cancel_calls(w) == SumCalls(w.cancel, MaxSearches)

\* A faulty cancel_search that marks any stored session cancelled, active or
\* not.
cancel_search_unchecked(w, s) ==
    LET w1 == [w EXCEPT !.cancel[s].calls = @ + 1, !.cancel[s].result = "none",
                        !.cancel[s].status_code = 0,
                        !.cancel[s].saw_stored = ~session_missing(w, s),
                        !.cancel[s].saw_active = is_search_active(w, s),
                        !.cancel[s].saw_live = FALSE]
    IN IF session_missing(w1, s) THEN cancel_returned(w1, s, "error", "not active")
       ELSE cancel_returned(update_session_status(w1, s, CANCELLED, "User cancelled"),
                            s, "ok", "other")

\* A faulty cancel_search that marks the session cancelled through the
\* adapter without cancelling and awaiting the task.
cancel_search_leaves_task(w, s) ==
    LET w1 == [w EXCEPT !.cancel[s].calls = @ + 1, !.cancel[s].result = "none",
                        !.cancel[s].status_code = 0,
                        !.cancel[s].saw_stored = ~session_missing(w, s),
                        !.cancel[s].saw_active = is_search_active(w, s),
                        !.cancel[s].saw_live = FALSE]
    IN IF ~is_search_active(w1, s) THEN cancel_returned(w1, s, "error", "not active")
       ELSE adapter_cancel_search(w1, s)

\* SearchService.cancel_search up to its first await.
cancel_search(w, s) ==
    LET w1 == [w EXCEPT !.cancel[s].calls = @ + 1, !.cancel[s].result = "none",
                        !.cancel[s].status_code = 0,
                        !.cancel[s].saw_stored = ~session_missing(w, s),
                        !.cancel[s].saw_active = is_search_active(w, s),
                        !.cancel[s].saw_live = FALSE]
    IN IF ~is_search_active(w1, s) THEN cancel_returned(w1, s, "error", "not active")
       ELSE IF s \in w1.running_tasks /\ w1.task[s].pc # "done"
         THEN [w1 EXCEPT !.task[s].must_cancel = TRUE, !.cancel[s].pc = "await_task",
                         !.cancel[s].saw_live = TRUE]
       ELSE adapter_cancel_search(w1, s)

\* cancel_search after `await task`: the task's exception, unless it is
\* CancelledError, is the failure of the cancel; otherwise the adapter's
\* cancel_search follows.
cancel_task_settled(w, s) ==
    IF w.task[s].outcome = "exception" THEN cancel_returned(w, s, "error", "other")
    ELSE adapter_cancel_search(w, s)

\* ----------------------------------------------- SearchService.new_chat

\* list(self._running_tasks.items()): the registry in insertion order, which
\* is the order of the ids.
SortedSeq(S) ==
    CHOOSE q \in [1..Cardinality(S) -> S] :
        \A i, j \in 1..Cardinality(S) : i < j => q[i] < q[j]

new_chat_returned(w, result) ==
    [DropFrame(w, NewChatProc) EXCEPT !.new_chat.pc = "done", !.new_chat.result = result,
                                      !.new_chat.snapshot = <<>>, !.new_chat.idx = 0]

\* new_chat after its loop: the registry is cleared, then
\* DeepSearchAdapter.clear_session clears the store and broadcasts the
\* session reset.
clear_session(w) ==
    LET w1 == broadcast_message(clear_all_sessions([w EXCEPT !.running_tasks = {}]),
                                NewChatProc, SessionResetMessage)
    IN IF Suspended(w1, NewChatProc) THEN [w1 EXCEPT !.new_chat.pc = "send"]
       ELSE new_chat_returned(w1, IF Raised(w1, NewChatProc) THEN "error" ELSE "ok")

\* The loop of new_chat over its snapshot, from the i-th task on: a task
\* that is not done is cancelled and awaited.
RECURSIVE new_chat_loop(_, _)
new_chat_loop(w, i) ==
    LET snap == w.new_chat.snapshot
    IN IF i > Len(snap) THEN clear_session(w)
       ELSE IF w.task[snap[i]].pc # "done"
         THEN [w EXCEPT !.task[snap[i]].must_cancel = TRUE,
                        !.new_chat.pc = "await_task", !.new_chat.idx = i]
       ELSE new_chat_loop(w, i + 1)

\* ---------------------------------------------------------------- state

InitProgram ==
    /\ sessions = [s \in SearchIds |-> NoSession]
    /\ active = {}
    /\ running_tasks = {}
    /\ task = [s \in SearchIds |-> NoTask]
    /\ next_id = 0
    /\ connections = {}
    /\ client_metadata = {}
    /\ next_client = 0
    /\ endpoint = [c \in Clients |-> "idle"]
    /\ sock = [c \in Clients |-> "none"]
    /\ received = [c \in Clients |-> [k \in Streams |-> <<>>]]
    /\ emitted = [k \in Streams |-> <<>>]
    /\ frame = [p \in Procs |-> NoFrame]
    /\ new_chat = [pc |-> "idle", calls |-> 0, snapshot |-> <<>>, idx |-> 0, result |-> "none"]
    /\ cancel = [s \in SearchIds |->
                   [pc |-> "idle", calls |-> 0, result |-> "none", saw_active |-> FALSE,
                    saw_live |-> FALSE, saw_stored |-> FALSE, status_code |-> 0]]
    /\ heartbeat = [pc |-> "sleep", count |-> 0, errors |-> 0]
    /\ now = 0
    /\ cleanup = [wake |-> cleanup_interval, removed |-> 0]
    /\ processed_llm_steps = {}

Init == InitProgram /\ graph = NoRuns /\ probe = NoProbe

\* -------------------------------------------------------------- actions

\* SearchService.start_search: the session is created and its task is
\* created and registered; the task runs later.
start_search(w, sid) ==
    [create_search_session(w, sid) EXCEPT !.task[sid] = [NoTask EXCEPT !.pc = "new",
                                                                     !.epoch = ResetCount(w)],
                                          !.running_tasks = @ \cup {sid}]

StartSearch(max) ==
    /\ next_id < max
    /\ Commit(start_search(World, next_id + 1))

\* The task's first run: execute_search up to the first await of the graph.
\* A task cancelled before its first run never enters the coroutine: no
\* except and no finally clause runs.
TaskStart(s) ==
    /\ task[s].pc = "new"
    /\ Commit(IF task[s].must_cancel
                THEN [World EXCEPT !.task[s].pc = "done", !.task[s].outcome = "cancelled",
                                   !.task[s].must_cancel = FALSE]
                ELSE [World EXCEPT !.task[s].pc = "stream", !.processed_llm_steps = {}])

\* The task resumes with the CancelledError of task.cancel().
TaskCancelled(s) ==
    /\ task[s].pc \in {"stream", "sleep", "send"}
    /\ task[s].must_cancel
    /\ Commit(task_cancelled(World, s))

\* graph.astream yields the event of a node.
TaskNode(s, max) ==
    /\ task[s].pc = "stream"
    /\ ~task[s].must_cancel
    /\ task[s].nodes < max
    /\ Commit(create_step(World, s, next_node(task[s].nodes)))

\* graph.astream yields an event of master whose state holds the result of
\* one more LLM step of the plan.
TaskMaster(s, max) ==
    /\ task[s].pc = "stream"
    /\ ~task[s].must_cancel
    /\ task[s].llm_results < max
    /\ Commit(handle_master_node(
                 [World EXCEPT !.task[s].llm_results = @ + 1,
                               !.task[s].llm_prev = Cardinality(processed_llm_steps)],
                 s, 1))

\* graph.astream is exhausted.
TaskStreamEnd(s) ==
    /\ task[s].pc = "stream"
    /\ ~task[s].must_cancel
    /\ \E has_result \in BOOLEAN : Commit(stream_finished(World, s, has_result))

\* graph.astream raises: execute_search wraps it in
\* DeepSearchIntegrationException.
TaskStreamRaises(s) ==
    /\ task[s].pc = "stream"
    /\ ~task[s].must_cancel
    /\ Commit(integration_error(World, s))

\* asyncio.sleep(1.0) of _create_step is over.
TaskWake(s) ==
    /\ task[s].pc = "sleep"
    /\ ~task[s].must_cancel
    /\ Commit(create_step_complete(World, s))

\* A send_text of the task's broadcast is over.
TaskSent(s) ==
    /\ task[s].pc = "send"
    /\ ~task[s].must_cancel
    /\ LET w1 == broadcast_resume(World, TaskProc(s))
       IN Commit(IF Suspended(w1, TaskProc(s)) THEN w1 ELSE task_after_broadcast(w1, s))

\* POST /search/{id}/cancel.  The id is one a client can know: the task of
\* a search has had its first run before start_search's response, which
\* carries the id, reaches any client.
CancelRequest(s, max) ==
    /\ cancel[s].pc \in {"idle", "done"}
    /\ cancel_calls(World) < max
    /\ task[s].pc # "new"
    /\ Commit(cancel_search(World, s))

\* cancel_search resumes after `await task`.
CancelTaskSettled(s) ==
    /\ cancel[s].pc = "await_task"
    /\ task[s].pc = "done"
    /\ Commit(cancel_task_settled(World, s))

\* A send_text of cancel's send_error is over.
CancelSent(s) ==
    /\ cancel[s].pc = "send"
    /\ LET w1 == broadcast_resume(World, CancelProc(s))
       IN Commit(IF Suspended(w1, CancelProc(s)) THEN w1
                 ELSE cancel_returned(w1, s, IF Raised(w1, CancelProc(s)) THEN "error"
                                             ELSE "ok", "other"))

\* POST /new-chat
NewChatRequest(max) ==
    /\ new_chat.pc \in {"idle", "done"}
    /\ new_chat.calls < max
    /\ Commit(new_chat_loop([World EXCEPT !.new_chat.calls = @ + 1,
                                          !.new_chat.result = "none",
                                          !.new_chat.snapshot = SortedSeq(running_tasks)], 1))

\* new_chat resumes after `await task`: the task's exception, unless it is
\* CancelledError, ends new_chat with an error.
NewChatTaskSettled ==
    /\ new_chat.pc = "await_task"
    /\ LET s == new_chat.snapshot[new_chat.idx]
       IN /\ task[s].pc = "done"
          /\ Commit(IF task[s].outcome = "exception" THEN new_chat_returned(World, "error")
                    ELSE new_chat_loop(World, new_chat.idx + 1))

\* A send_text of the session reset is over.
NewChatSent ==
    /\ new_chat.pc = "send"
    /\ LET w1 == broadcast_resume(World, NewChatProc)
       IN Commit(IF Suspended(w1, NewChatProc) THEN w1
                 ELSE new_chat_returned(w1, IF Raised(w1, NewChatProc) THEN "error"
                                            ELSE "ok"))

\* _heartbeat_loop wakes from its sleep: a heartbeat is broadcast when there
\* are connections; an exception of the broadcast is logged.
\* A faulty loop that an exception of the broadcast ends.
heartbeat_stops_on_error(w) ==
    [DropFrame(w, HeartbeatProc)
       EXCEPT !.heartbeat.pc = IF Raised(w, HeartbeatProc) THEN "stopped" ELSE "sleep"]

heartbeat_returned(w) ==
    [DropFrame(w, HeartbeatProc)
       EXCEPT !.heartbeat.pc = "sleep",
              !.heartbeat.errors = IF Raised(w, HeartbeatProc) THEN @ + 1 ELSE @]

HeartbeatWake(max) ==
    /\ heartbeat.pc = "sleep"
    /\ heartbeat.count < max
    /\ LET w0 == [World EXCEPT !.heartbeat.count = @ + 1]
           w1 == broadcast_message(w0, HeartbeatProc, HeartbeatMessage)
       IN Commit(IF connections = {} THEN w0
                 ELSE IF Suspended(w1, HeartbeatProc) THEN [w1 EXCEPT !.heartbeat.pc = "send"]
                 ELSE heartbeat_returned(w1))

HeartbeatSent ==
    /\ heartbeat.pc = "send"
    /\ LET w1 == broadcast_resume(World, HeartbeatProc)
       IN Commit(IF Suspended(w1, HeartbeatProc) THEN w1 ELSE heartbeat_returned(w1))

\* A faulty connect_client that registers the client and sends it nothing.
connect_client_silent(w, c) ==
    [w EXCEPT !.next_client = c, !.sock[c] = "open", !.endpoint[c] = "listening",
              !.connections = @ \cup {c}, !.client_metadata = @ \cup {c}]

\* websocket_endpoint: connect_client accepts the socket, registers the
\* client under a fresh id and sends it the connection message; the
\* endpoint then awaits the client's messages.  (When that send is over
\* only last_seen is written, or, the client being removed meanwhile, the
\* KeyError is caught: no state of the model changes.)
connect_client(w, c) ==
    LET m == ConnectionMessage(c)
        w1 == Emit([w EXCEPT !.next_client = c, !.sock[c] = "open",
                             !.connections = @ \cup {c}, !.client_metadata = @ \cup {c}], m)
    IN [send_text(w1, c, LastRef(w1, 0)) EXCEPT !.endpoint[c] = "listening"]

WsConnect(max) ==
    /\ next_client < max
    /\ Commit(connect_client(World, next_client + 1))

\* The peer closes its side: sends to it fail from now on.
PeerClose(c) ==
    /\ sock[c] = "open"
    /\ Commit([World EXCEPT !.sock[c] = "closed"])

\* receive_text raises WebSocketDisconnect: the endpoint's finally clause
\* disconnects the client.
WsDisconnect(c) ==
    /\ endpoint[c] = "listening"
    /\ sock[c] = "closed"
    /\ Commit([disconnect_client(World, c) EXCEPT !.endpoint[c] = "closed"])

\* The session lifecycle: searches, their tasks, cancel and new_chat
\* requests, and one websocket client that connects, fails and disconnects.
Next ==
    \/ StartSearch(MaxSearches)
    \/ \E s \in SearchIds : TaskStart(s)
    \/ \E s \in SearchIds : TaskCancelled(s)
    \/ \E s \in SearchIds : TaskNode(s, MaxNodes)
    \/ \E s \in SearchIds : TaskStreamEnd(s)
    \/ \E s \in SearchIds : TaskStreamRaises(s)
    \/ \E s \in SearchIds : TaskWake(s)
    \/ \E s \in SearchIds : TaskSent(s)
    \/ \E s \in SearchIds : CancelRequest(s, MaxCancels)
    \/ \E s \in SearchIds : CancelTaskSettled(s)
    \/ \E s \in SearchIds : CancelSent(s)
    \/ NewChatRequest(MaxNewChats)
    \/ NewChatTaskSettled
    \/ NewChatSent
    \/ WsConnect(MaxLifecycleClients)
    \/ \E c \in Clients : PeerClose(c)
    \/ \E c \in Clients : WsDisconnect(c)

Spec == Init /\ [][Next]_vars

\* Event order: searches that run to their end side by side with the
\* heartbeat loop, and one websocket client.
NextOrder ==
    \/ StartSearch(MaxSearches)
    \/ \E s \in SearchIds : TaskStart(s)
    \/ \E s \in SearchIds : TaskNode(s, MaxNodes)
    \/ \E s \in SearchIds : TaskStreamEnd(s)
    \/ \E s \in SearchIds : TaskStreamRaises(s)
    \/ \E s \in SearchIds : TaskWake(s)
    \/ \E s \in SearchIds : TaskSent(s)
    \/ HeartbeatWake(MaxHeartbeats)
    \/ HeartbeatSent
    \/ WsConnect(MaxLifecycleClients)
    \/ \E c \in Clients : PeerClose(c)
    \/ \E c \in Clients : WsDisconnect(c)

SpecOrder == Init /\ [][NextOrder]_vars

\* Broadcasting: one search and the heartbeat loop send to websocket clients
\* that connect, fail and disconnect while messages are being sent.
NextBroadcast ==
    \/ StartSearch(MaxBroadcastSearches)
    \/ \E s \in SearchIds : TaskStart(s)
    \/ \E s \in SearchIds : TaskNode(s, MaxNodes)
    \/ \E s \in SearchIds : TaskStreamEnd(s)
    \/ \E s \in SearchIds : TaskStreamRaises(s)
    \/ \E s \in SearchIds : TaskWake(s)
    \/ \E s \in SearchIds : TaskSent(s)
    \/ HeartbeatWake(MaxHeartbeats)
    \/ HeartbeatSent
    \/ WsConnect(MaxClients)
    \/ \E c \in Clients : PeerClose(c)
    \/ \E c \in Clients : WsDisconnect(c)

SpecBroadcast == Init /\ [][NextBroadcast]_vars

\* Time passes.  Nothing in the services waits for a point in time but the
\* sleeps modelled by their own actions.
Tick(max) ==
    /\ now < max
    /\ Commit([World EXCEPT !.now = @ + TickSeconds])

\* Time: one search runs to its end while the clock advances.
NextTime ==
    \/ StartSearch(MaxBroadcastSearches)
    \/ \E s \in SearchIds : TaskStart(s)
    \/ \E s \in SearchIds : TaskNode(s, MaxNodes)
    \/ \E s \in SearchIds : TaskStreamEnd(s)
    \/ \E s \in SearchIds : TaskStreamRaises(s)
    \/ \E s \in SearchIds : TaskWake(s)
    \/ \E s \in SearchIds : TaskSent(s)
    \/ WsConnect(MaxLifecycleClients)
    \/ \E c \in Clients : PeerClose(c)
    \/ \E c \in Clients : WsDisconnect(c)
    \/ Tick(MaxTime)

SpecTime == Init /\ [][NextTime]_vars

\* One run: a search with its plan step and its tool steps, cancelled or
\* cleared or left to run to its end, and one websocket client.
NextRun ==
    \/ StartSearch(MaxBroadcastSearches)
    \/ \E s \in SearchIds : TaskStart(s)
    \/ \E s \in SearchIds : TaskCancelled(s)
    \/ \E s \in SearchIds : TaskNode(s, MaxRunNodes)
    \/ \E s \in SearchIds : TaskStreamEnd(s)
    \/ \E s \in SearchIds : TaskStreamRaises(s)
    \/ \E s \in SearchIds : TaskWake(s)
    \/ \E s \in SearchIds : TaskSent(s)
    \/ \E s \in SearchIds : CancelRequest(s, MaxCancels)
    \/ \E s \in SearchIds : CancelTaskSettled(s)
    \/ \E s \in SearchIds : CancelSent(s)
    \/ NewChatRequest(MaxNewChats)
    \/ NewChatTaskSettled
    \/ NewChatSent
    \/ WsConnect(MaxLifecycleClients)
    \/ \E c \in Clients : PeerClose(c)
    \/ \E c \in Clients : WsDisconnect(c)

SpecRun == Init /\ [][NextRun]_vars

\* ------------------------------------------- add_step applied on its own

\* StepStatus
StepStatuses == {"pending", "running", "completed", "failed"}

\* The steps handed to add_step: ids as _create_step builds them, in any
\* status.
StepArgs ==
    {ThinkingStep(IF n = 0 THEN "plan" ELSE "search", n, st) :
        n \in 0..(MaxStepIds - 1), st \in StepStatuses}

\* A session has just been created: its step list is empty.
InitAddStep ==
    /\ InitProgram
    /\ graph = NoRuns
    /\ probe = [calls |-> 0, steps |-> <<>>, prev |-> <<>>, step |-> NoStep]

\* SessionManager.add_step is called with some step on the session's list.
AddStepCall(max) ==
    /\ probe.calls < max
    /\ \E step \in StepArgs :
          Commit([World EXCEPT !.probe = [calls |-> probe.calls + 1, prev |-> probe.steps,
                                         step |-> step,
                                         steps |-> add_step_to(probe.steps, step)]])

NextAddStep == AddStepCall(MaxAddSteps)

SpecAddStep == InitAddStep /\ [][NextAddStep]_vars

\* ------------------------------------------- the graph (deepsearch.graph)

\* graph.astream(initial_state, {"recursion_limit": 50})
recursion_limit == 50
\* initial_state["max_replan_iter"]
max_replan_iter == 1

\* a key of the state no node has written and the input did not give
Unset == -2

\* The input messages of a run: execute_search passes [], cli.run_query the
\* question.
InputMessages == {"empty", "question"}

\* What the model's response holds for master, by the order master tests it.
Responses == {"answer", "plan", "replan", "code", "none"}

\* The state at START: `last` is what the last message holds, `replans` counts
\* the replan decisions master has taken in this run, `dispatched` lists the
\* indices of the queries of the current plan handed to search so far.
ainvoke(messages) ==
    [node |-> "master", last |-> messages, plan_result |-> Unset,
     plan_query_index |-> Unset, replan_count |-> 0, needs_replan |-> FALSE,
     steps |-> 0, replans |-> 0, error |-> "none", dispatched |-> <<>>]

Goto(g, node, last) == [g EXCEPT !.node = node, !.last = last, !.steps = @ + 1]
Raise(g, error) == [g EXCEPT !.node = "raised", !.error = error, !.steps = @ + 1]
\* a node that returns no Command ends the run: no edge leaves it
ReturnNone(g) == [g EXCEPT !.node = "end", !.steps = @ + 1]

\* A faulty decide_action that hands a query to search and leaves the index
\* where it was.
decide_action_repeats(g) ==
    IF g.plan_query_index = Unset THEN Raise(g, "KeyError")
    ELSE IF g.plan_query_index # -1
      THEN IF g.plan_query_index >= g.plan_result THEN Raise(g, "IndexError")
           ELSE [Goto(g, "search", "search_query") EXCEPT
                   !.dispatched = Append(@, g.plan_query_index)]
    ELSE IF g.last = "search_result" THEN Goto(g, "master", "prompt")
    ELSE ReturnNone(g)

decide_action(g) ==
    IF g.plan_query_index = Unset THEN Raise(g, "KeyError")
    ELSE IF g.plan_query_index # -1
      THEN IF g.last \in {"plan_result", "search_result"}
             THEN IF g.plan_query_index >= g.plan_result
                    THEN Raise(g, "IndexError")
                    ELSE [Goto(g, "search", "search_query") EXCEPT
                            !.plan_query_index =
                               IF @ + 1 = g.plan_result THEN -1 ELSE @ + 1,
                            !.dispatched = Append(@, g.plan_query_index)]
             ELSE ReturnNone(g)
    ELSE IF g.last = "search_result" THEN Goto(g, "master", "prompt")
    ELSE ReturnNone(g)

master(g, response) ==
    IF g.last = "empty" THEN Raise(g, "IndexError")
    ELSE IF g.last \in {"plan_result", "search_result"} THEN decide_action(g)
    ELSE CASE response = "answer" -> Goto(g, "end", "answer")
           [] response = "plan" ->
                [Goto(g, "plan", "plan") EXCEPT !.needs_replan = FALSE,
                                                !.replan_count = 0]
           [] response = "replan" ->
                IF g.replan_count >= 2 THEN Goto(g, "master", "prompt")
                ELSE IF g.plan_result = Unset THEN Raise(g, "KeyError")
                ELSE [Goto(g, "plan", "replan") EXCEPT !.needs_replan = TRUE,
                                                       !.replan_count = @ + 1,
                                                       !.replans = @ + 1]
           [] response = "code" -> Raise(g, "KeyError")
           [] OTHER -> decide_action(g)

\* extract_plan_result(extract_last_json_block(response)): the number of
\* search queries of the plan list; a response without a plan gives none.
PlanLists == 0..MaxPlanLen

\* plan_list holds `queries` search queries.
plan(g, queries) ==
    [Goto(g, "master", "plan_result") EXCEPT
        !.plan_result = queries,
        !.plan_query_index = 0,
        !.needs_replan = FALSE,
        !.replan_count = IF g.needs_replan THEN @ ELSE 0,
        !.dispatched = <<>>]

search(g, found) ==
    IF found THEN Goto(g, "master", "search_result") ELSE Raise(g, "SearchError")

GraphRunning(g) == g.node \in {"master", "plan", "search"}
GraphEnded(g) == g.node \in {"end", "raised"}

\* The step after the last one allowed finds a node still to run.
recursion_error(g) == [g EXCEPT !.node = "raised", !.error = "GraphRecursionError"]

\* ------------------------------- the answer execute_search returns

\* A text is a sequence of lines (the text split at its newlines), a line a
\* sequence of tokens: tags, a word, a blank.
Tokens == {"<answer>", "</answer>", "<think>", "w", " "}
Lines == UNION {[1..n -> Tokens] : n \in 0..MaxLineLen}
Texts == UNION {[1..n -> Lines] : n \in 1..MaxLines}
EmptyText == << <<>> >>

\* re's \w+ between < and >: the name of an opening tag, "" for other tokens
TagName(tok) ==
    CASE tok = "<answer>" -> "answer"
      [] tok = "<think>" -> "think"
      [] OTHER -> ""

ClosingTag(name) == IF name = "answer" THEN "</answer>" ELSE "</think>"

\* str.strip() on a line: blanks at both ends go.
RECURSIVE lstrip(_)
lstrip(line) == IF line # <<>> /\ Head(line) = " " THEN lstrip(Tail(line)) ELSE line
RECURSIVE rstrip(_)
rstrip(line) ==
    IF line # <<>> /\ line[Len(line)] = " " THEN rstrip(SubSeq(line, 1, Len(line) - 1))
    ELSE line

\* str.strip() on a text: blank lines at both ends go with their newlines,
\* and the blanks at the start of the first and the end of the last line.
RECURSIVE strip_head(_)
strip_head(text) ==
    IF Len(text) > 1 /\ lstrip(text[1]) = <<>> THEN strip_head(Tail(text))
    ELSE [text EXCEPT ![1] = lstrip(@)]
RECURSIVE strip_tail(_)
strip_tail(text) ==
    IF Len(text) > 1 /\ rstrip(text[Len(text)]) = <<>>
      THEN strip_tail(SubSeq(text, 1, Len(text) - 1))
      ELSE [text EXCEPT ![Len(text)] = rstrip(@)]
strip(text) == strip_tail(strip_head(text))

\* bool(str)
truthy(text) == text # EmptyText

\* utils.extract_content: the regex <(\w+)>(.*?)</\1> is matched at the start
\* of the last line of the stripped text; the content when the tag is the
\* target, else None.  The result is <<>> for None and <<content>> otherwise.
extract_content(input_str, target_tag) ==
    LET lines == strip(input_str)
        last == lines[Len(lines)]
        name == IF last = <<>> THEN "" ELSE TagName(last[1])
        closers == {j \in 2..Len(last) : last[j] = ClosingTag(name)}
    IN IF name = "" \/ closers = {} \/ name # target_tag THEN <<>>
       ELSE LET j == CHOOSE k \in closers : \A m \in closers : k <= m
            IN << SubSeq(last, 2, j - 1) >>

NoAnswerGenerated == << <<"Search completed but no answer was generated.">> >>

\* DeepSearchAdapter.execute_search after the stream: what it returns for
\* final_state's result and explaination (<<>>: key absent or None, <<text>>
\* otherwise).
execute_search_result(result, explaination) ==
    IF result = <<>> \/ ~truthy(result[1]) THEN NoAnswerGenerated
    ELSE LET result_content == result[1]
             answer == extract_content(result_content, "answer")
         IN IF explaination # <<>> /\ truthy(explaination[1])
                  /\ truthy(strip(explaination[1]))
              THEN explaination[1]
            ELSE IF answer # <<>> /\ answer[1] # <<>> /\ lstrip(answer[1]) # <<>>
              THEN << answer[1] >>
            ELSE result_content

\* The solver responses and explanations a final state may hold.
ResultArgs == {<<>>} \cup {<<x>> : x \in Texts}
ExplanationArgs == {<<>>, <<EmptyText>>, << << <<"w">> >> >>}

InitAnswer ==
    /\ InitProgram
    /\ graph = NoRuns
    /\ \E r \in ResultArgs, e \in ExplanationArgs :
          probe = [calls |-> 0, result |-> r, explaination |-> e, out |-> EmptyText]

\* execute_search returns.
ExecuteSearchReturns ==
    /\ probe.calls = 0
    /\ Commit([World EXCEPT !.probe.calls = 1,
                            !.probe.out = execute_search_result(probe.result,
                                                                probe.explaination)])

NextAnswer == ExecuteSearchReturns

SpecAnswer == InitAnswer /\ [][NextAnswer]_vars

\* ---------------------------------------------------- a run of the graph

InitGraph == InitProgram /\ graph = NoRuns /\ probe = NoProbe

GraphStart(s) ==
    /\ graph[s] = NoRun
    /\ \E messages \in InputMessages :
          Commit([World EXCEPT !.graph[s] = ainvoke(messages)])

Master(s) ==
    /\ graph[s].node = "master"
    /\ graph[s].steps < recursion_limit
    /\ \E response \in Responses :
          Commit([World EXCEPT !.graph[s] = master(graph[s], response)])

Plan(s) ==
    /\ graph[s].node = "plan"
    /\ graph[s].steps < recursion_limit
    /\ \E queries \in PlanLists :
          Commit([World EXCEPT !.graph[s] = plan(graph[s], queries)])

Search(s) ==
    /\ graph[s].node = "search"
    /\ graph[s].steps < recursion_limit
    /\ \E found \in BOOLEAN :
          Commit([World EXCEPT !.graph[s] = search(graph[s], found)])

GraphRecursion(s) ==
    /\ GraphRunning(graph[s])
    /\ graph[s].steps = recursion_limit
    /\ Commit([World EXCEPT !.graph[s] = recursion_error(graph[s])])

\* The runs of the graph on their own.
NextGraph ==
    \E s \in 1..MaxGraphRuns :
        GraphStart(s) \/ Master(s) \/ Plan(s) \/ Search(s) \/ GraphRecursion(s)

SpecGraph == InitGraph /\ [][NextGraph]_vars

\* ------------------------------------- a search that runs the graph

\* execute_search takes the event of the node the graph has just run, g
\* being the graph's state after it.  An exception of the node leaves
\* astream and is wrapped in DeepSearchIntegrationException; the event of
\* master creates no step (_handle_master_node finds no steps and no results
\* in the state); the event of another node goes to _create_step.  After the
\* last event the stream is exhausted: no node of the graph writes `result`.
stream_event(world, s, node, g) ==
    Let1(world, LAMBDA w :
        LET w1 == [w EXCEPT !.graph[s] = g]
        IN IF g.node = "raised" THEN integration_error(w1, s)
           ELSE IF node # "master" THEN create_step(w1, s, node)
           ELSE IF g.node = "end" THEN stream_finished(w1, s, FALSE)
           ELSE w1)

\* The task's first run: execute_search builds initial_state and asks the
\* graph for its first event.  The run is given `limit` as its recursion
\* limit below.  The messages are [] as execute_search passes
\* them; a run given the question, as cli.run_query gives it, is covered too.
RunStart(s) ==
    /\ task[s].pc = "new"
    /\ \E messages \in InputMessages :
          Commit(IF task[s].must_cancel
                   THEN [World EXCEPT !.task[s].pc = "done",
                                      !.task[s].outcome = "cancelled",
                                      !.task[s].must_cancel = FALSE]
                   ELSE [World EXCEPT !.task[s].pc = "stream",
                                      !.graph[s] = ainvoke(messages)])

RunMaster(s, limit) ==
    /\ task[s].pc = "stream"
    /\ ~task[s].must_cancel
    /\ graph[s].node = "master"
    /\ graph[s].steps < limit
    /\ \E response \in Responses :
          Commit(stream_event(World, s, "master", master(graph[s], response)))

RunPlan(s, limit) ==
    /\ task[s].pc = "stream"
    /\ ~task[s].must_cancel
    /\ graph[s].node = "plan"
    /\ graph[s].steps < limit
    /\ \E queries \in PlanLists :
          Commit(stream_event(World, s, "plan", plan(graph[s], queries)))

RunSearch(s, limit) ==
    /\ task[s].pc = "stream"
    /\ ~task[s].must_cancel
    /\ graph[s].node = "search"
    /\ graph[s].steps < limit
    /\ \E found \in BOOLEAN :
          Commit(stream_event(World, s, "search", search(graph[s], found)))

RunRecursion(s, limit) ==
    /\ task[s].pc = "stream"
    /\ ~task[s].must_cancel
    /\ GraphRunning(graph[s])
    /\ graph[s].steps = limit
    /\ Commit(stream_event(World, s, graph[s].node, recursion_error(graph[s])))

NextSearch ==
    \/ StartSearch(MaxBroadcastSearches)
    \/ \E s \in SearchIds : RunStart(s)
    \/ \E s \in SearchIds : RunMaster(s, MaxRunSteps)
    \/ \E s \in SearchIds : RunPlan(s, MaxRunSteps)
    \/ \E s \in SearchIds : RunSearch(s, MaxRunSteps)
    \/ \E s \in SearchIds : RunRecursion(s, MaxRunSteps)
    \/ \E s \in SearchIds : TaskCancelled(s)
    \/ \E s \in SearchIds : TaskWake(s)
    \/ \E s \in SearchIds : TaskSent(s)
    \/ \E s \in SearchIds : CancelRequest(s, MaxCancels)
    \/ \E s \in SearchIds : CancelTaskSettled(s)
    \/ \E s \in SearchIds : CancelSent(s)
    \/ NewChatRequest(MaxNewChats)
    \/ NewChatTaskSettled
    \/ NewChatSent
    \/ WsConnect(MaxLifecycleClients)
    \/ \E c \in Clients : PeerClose(c)
    \/ \E c \in Clients : WsDisconnect(c)

\* The steps of the task of search s, of a cancel request for it and of a
\* new chat request.
RunStep(s) ==
    \/ RunStart(s)
    \/ RunMaster(s, MaxRunSteps)
    \/ RunPlan(s, MaxRunSteps)
    \/ RunSearch(s, MaxRunSteps)
    \/ RunRecursion(s, MaxRunSteps)
    \/ TaskCancelled(s)
    \/ TaskWake(s)
    \/ TaskSent(s)
CancelStep(s) == CancelTaskSettled(s) \/ CancelSent(s)
NewChatStep == NewChatTaskSettled \/ NewChatSent

\* The event loop runs every coroutine that is ready, the model and the
\* search tool answer, and a send on a socket ends.
FairSearch ==
    /\ \A s \in SearchIds : WF_vars(RunStep(s)) /\ WF_vars(CancelStep(s))
    /\ WF_vars(NewChatStep)

SpecSearch == Init /\ [][NextSearch]_vars /\ FairSearch

\* One search cancelled more than once, while the clock advances.
NextCancel ==
    \/ StartSearch(MaxBroadcastSearches)
    \/ \E s \in SearchIds : TaskStart(s)
    \/ \E s \in SearchIds : TaskCancelled(s)
    \/ \E s \in SearchIds : TaskNode(s, MaxNodes)
    \/ \E s \in SearchIds : TaskStreamEnd(s)
    \/ \E s \in SearchIds : TaskStreamRaises(s)
    \/ \E s \in SearchIds : TaskWake(s)
    \/ \E s \in SearchIds : TaskSent(s)
    \/ \E s \in SearchIds : CancelRequest(s, MaxCancelCalls)
    \/ \E s \in SearchIds : CancelTaskSettled(s)
    \/ \E s \in SearchIds : CancelSent(s)
    \/ NewChatRequest(MaxNewChats)
    \/ NewChatTaskSettled
    \/ NewChatSent
    \/ WsConnect(MaxLifecycleClients)
    \/ \E c \in Clients : PeerClose(c)
    \/ \E c \in Clients : WsDisconnect(c)
    \/ Tick(TickSeconds)

SpecCancel == Init /\ [][NextCancel]_vars

\* The heartbeat loop over several intervals, beside one search and clients
\* that connect, fail and disconnect.  A send_text that went out is over
\* after a while.
NextHeartbeat ==
    \/ StartSearch(MaxBroadcastSearches)
    \/ \E s \in SearchIds : TaskStart(s)
    \/ \E s \in SearchIds : TaskNode(s, MaxNodes)
    \/ \E s \in SearchIds : TaskStreamEnd(s)
    \/ \E s \in SearchIds : TaskWake(s)
    \/ \E s \in SearchIds : TaskSent(s)
    \/ HeartbeatWake(MaxBeats)
    \/ HeartbeatSent
    \/ WsConnect(MaxClients)
    \/ \E c \in Clients : PeerClose(c)
    \/ \E c \in Clients : WsDisconnect(c)

SpecHeartbeat == Init /\ [][NextHeartbeat]_vars /\ WF_vars(HeartbeatSent)

\* ------------------------------------------- messages from a client

\* The pong _handle_client_message builds: a dict, not a message model.
PongMessage(c) == [Message("pong", 0) EXCEPT !.client = c]

\* WebSocketManager.send_message_to_client for a dict.  A client that is not
\* registered raises WebSocketException before anything is sent.  Otherwise
\* the dict is sent; a failed send disconnects the client, and so does a
\* send that went out: the debug line after it reads message.type, which a
\* dict does not have, and the AttributeError reaches the same except
\* clause.
send_message_to_client(w, c, m) ==
    IF c \notin w.connections THEN w
    ELSE IF send_text_raises(w, c) THEN disconnect_client(w, c)
    ELSE LET w1 == Emit(w, m)
         IN disconnect_client(send_text(w1, c, LastRef(w1, m.sid)), c)

\* _handle_client_message: a ping is answered with a pong, every other type
\* is logged.  The endpoint logs whatever the handler raises, and a text
\* that is not JSON ("malformed") before the handler is called.
handle_client_message(w, c, type) ==
    IF type = "ping" THEN send_message_to_client(w, c, PongMessage(c)) ELSE w

InboundTypes == {"ping", "subscribe", "unsubscribe", "unknown", "malformed"}

\* receive_text of the endpoint of client c returns a message of the type.
ClientMessage(c, type, max) ==
    /\ endpoint[c] = "listening"
    /\ sock[c] = "open"
    /\ probe.calls < max
    /\ Commit(handle_client_message(
                 [World EXCEPT !.probe = [calls |-> probe.calls + 1, client |-> c,
                                          type |-> type]], c, type))

\* Clients that connect, send messages and close, and the heartbeat loop.
NextInbound ==
    \/ WsConnect(MaxClients)
    \/ \E c \in Clients : PeerClose(c)
    \/ \E c \in Clients : WsDisconnect(c)
    \/ \E c \in Clients, type \in InboundTypes : ClientMessage(c, type, MaxInbound)
    \/ HeartbeatWake(MaxHeartbeats)
    \/ HeartbeatSent

SpecInbound == Init /\ [][NextInbound]_vars

\* ------------------------------------------- the cleanup task

\* A faulty sweep that removes every terminal session, whatever its age.
remove_terminal_sessions(w) ==
    LET expired_sessions ==
            {s \in SearchIds : w.sessions[s].stored /\ w.sessions[s].status \in TerminalStatus}
    IN [w EXCEPT !.sessions = [s \in SearchIds |->
                                 IF s \in expired_sessions THEN NoSession ELSE @[s]],
                 !.active = @ \ expired_sessions,
                 !.cleanup.removed = @ + Cardinality(expired_sessions)]

\* A faulty sweep that removes nothing.
remove_nothing(w) == w

\* SessionManager._remove_expired_sessions: every terminal session whose
\* end_time lies more than session_timeout back is deleted.
remove_expired_sessions(w) ==
    LET expired_sessions ==
            {s \in SearchIds : /\ w.sessions[s].stored
                               /\ w.sessions[s].status \in TerminalStatus
                               /\ w.sessions[s].end_time >= 0
                               /\ w.now - w.sessions[s].end_time > session_timeout}
    IN [w EXCEPT !.sessions = [s \in SearchIds |->
                                 IF s \in expired_sessions THEN NoSession ELSE @[s]],
                 !.active = @ \ expired_sessions,
                 !.cleanup.removed = @ + Cardinality(expired_sessions)]

\* _cleanup_expired_sessions: the sleep of cleanup_interval is over, the
\* sweep runs, and the loop sleeps again.
CleanupWake ==
    /\ now = cleanup.wake
    /\ Commit([remove_expired_sessions(World) EXCEPT !.cleanup.wake = now + cleanup_interval])

\* Time passes, up to the moment the cleanup task's sleep is over: the task
\* wakes on time.
SweepTick(max) ==
    /\ now < max
    /\ now < cleanup.wake
    /\ Commit([World EXCEPT !.now = IF @ + TickSeconds > cleanup.wake THEN cleanup.wake
                                    ELSE @ + TickSeconds])

\* One search that runs to its end, a websocket client, the clock and the
\* cleanup task.
NextSweep ==
    \/ StartSearch(MaxBroadcastSearches)
    \/ \E s \in SearchIds : TaskStart(s)
    \/ \E s \in SearchIds : TaskNode(s, MaxNodes)
    \/ \E s \in SearchIds : TaskStreamEnd(s)
    \/ \E s \in SearchIds : TaskStreamRaises(s)
    \/ \E s \in SearchIds : TaskWake(s)
    \/ \E s \in SearchIds : TaskSent(s)
    \/ WsConnect(MaxLifecycleClients)
    \/ CleanupWake
    \/ SweepTick(MaxSweepTime)

SpecSweep == Init /\ [][NextSweep]_vars

\* ------------------------------------ _collect_sources on its own

\* An entry of a step's metadata.sources: a dict or not, and the value under
\* its key link ("" for the empty string, NoLink when the key is absent).
NoLink == "<absent>"
Links == {"", "a", "b"}
SourceEntries == [dict : {TRUE}, link : Links \cup {NoLink}] \cup {[dict |-> FALSE, link |-> NoLink]}
StepSources == UNION {[1..n -> SourceEntries] : n \in 0..MaxStepSources}
SessionSources == UNION {[1..n -> StepSources] : n \in 0..MaxSourceSteps}

\* A faulty loop body that appends a link whether seen or not.
collect_source_again(acc, source) ==
    IF source.dict /\ source.link # NoLink /\ source.link # ""
      THEN [all_sources |-> Append(acc.all_sources, source.link),
            seen_links |-> acc.seen_links \cup {source.link}]
      ELSE acc

\* The body of the inner loop of _collect_sources: a dict with a non-empty
\* link not seen before is appended and its link remembered.
collect_source(acc, source) ==
    IF source.dict /\ source.link # NoLink /\ source.link # ""
         /\ source.link \notin acc.seen_links
      THEN [all_sources |-> Append(acc.all_sources, source.link),
            seen_links |-> acc.seen_links \cup {source.link}]
      ELSE acc

\* The inner loop over one step's sources, and the outer loop over the steps.
RECURSIVE collect_step(_, _)
collect_step(acc, sources) ==
    IF sources = <<>> THEN acc
    ELSE collect_step(collect_source(acc, Head(sources)), Tail(sources))
RECURSIVE collect_steps(_, _)
collect_steps(acc, steps) ==
    IF steps = <<>> THEN acc
    ELSE collect_steps(collect_step(acc, Head(steps)), Tail(steps))

\* _collect_sources: the session's sources afterwards, given what they were
\* (they are only assigned when something was collected).
collect_sources(steps, sources) ==
    LET all_sources == collect_steps([all_sources |-> <<>>, seen_links |-> {}], steps).all_sources
    IN IF all_sources # <<>> THEN all_sources ELSE sources

\* A session whose steps carry any sources; its own sources are the empty
\* default.
InitSources ==
    /\ InitProgram
    /\ graph = NoRuns
    /\ probe \in {[calls |-> 0, steps |-> steps, sources |-> <<>>] : steps \in SessionSources}

CollectSources ==
    /\ probe.calls = 0
    /\ Commit([World EXCEPT !.probe = [probe EXCEPT !.calls = 1,
                                          !.sources = collect_sources(probe.steps, probe.sources)]])

NextSources == CollectSources

SpecSources == InitSources /\ [][NextSources]_vars

\* ------------------------------------------------- POST /api/v1/search

\* A query is a string given by the lengths of its three runs: leading
\* whitespace, the core from its first to its last other character, and
\* trailing whitespace (a string of whitespace alone has no core; its length
\* is kept in lead).
QueryLengths == {0, 1, max_length - 1, max_length, max_length + 1}
Queries ==
    {q \in [lead : 0..MaxPad, core : QueryLengths, trail : 0..MaxPad] :
        q.core = 0 => q.trail = 0}
query_len(q) == q.lead + q.core + q.trail
query_strip(q) == [lead |-> 0, core |-> q.core, trail |-> 0]

\* The answer of a submission, kept for the properties to read.
submit_response(w, q, status_code) ==
    [w EXCEPT !.probe = [calls |-> w.probe.calls + 1, query |-> q,
                         status_code |-> status_code]]

\* The route start_search behind the SearchRequest model.  The model's
\* min_length and max_length are validated on the raw string first (422).
\* The HTTPException the route raises for a stripped query that is empty or
\* too long is raised inside its own try, where `except Exception` turns it
\* into the internal server error.
start_search_route(w, q) ==
    IF query_len(q) < 1 \/ query_len(q) > max_length
      THEN submit_response(w, q, HTTP_422_VALIDATION)
    ELSE IF query_len(query_strip(q)) = 0 \/ query_len(query_strip(q)) > max_length
      THEN submit_response(w, q, HTTP_500_INTERNAL)
    ELSE submit_response(start_search(w, w.next_id + 1), q, 200)

SubmitSearch(q, max) ==
    /\ probe.calls < max
    /\ next_id < MaxSearches
    /\ LET w1 == start_search_route(World, q)
       IN w1.next_id <= MaxBroadcastSearches /\ Commit(w1)

\* Submissions of any query, the search a valid one starts, and a websocket
\* client.
NextSubmit ==
    \/ \E q \in Queries : SubmitSearch(q, MaxSubmits)
    \/ \E s \in SearchIds : TaskStart(s)
    \/ \E s \in SearchIds : TaskNode(s, MaxNodes)
    \/ \E s \in SearchIds : TaskStreamEnd(s)
    \/ \E s \in SearchIds : TaskWake(s)
    \/ \E s \in SearchIds : TaskSent(s)
    \/ WsConnect(MaxLifecycleClients)

SpecSubmit == Init /\ [][NextSubmit]_vars

\* --------------------------------------------------------------- claims

Stored(s) == sessions[s].stored
Status(s) == sessions[s].status
Running == {s \in SearchIds : Stored(s) /\ Status(s) = THINKING}
Resets == ResetCount(World)

\* The step updates and search completions built for search s so far.
ProgressEvents(s) ==
    {i \in 1..Len(emitted[s]) : emitted[s][i].type \in {"step_update", "search_complete"}}

\* C1: the status of a stored session changes only from thinking to
\* completed, error or cancelled; a terminal status never changes.
C1_StatusOnlyLeavesRunning ==
    [][\A s \in SearchIds :
         (Stored(s) /\ sessions'[s].stored /\ sessions'[s].status # Status(s))
            => (Status(s) = THINKING /\ sessions'[s].status \in TerminalStatus)]_vars

\* A cancel call that found search s active has returned.
CancelFinished(s) == cancel[s].pc = "done" /\ cancel[s].saw_active

\* C2 as stated: at the moment a cancel call that found s running finishes,
\* s is stored with status cancelled and is not active.
C2_StoredCancelledWhenCancelReturns ==
    [][\A s \in SearchIds :
         (cancel[s].pc # "done" /\ cancel'[s].pc = "done" /\ cancel'[s].saw_active)
            => /\ sessions'[s].stored
               /\ sessions'[s].status = CANCELLED
               /\ s \notin active']_vars

\* C2 as amended: once a cancel call that found s running has finished, the
\* task of s has ended, s is not active, and s is stored with status
\* cancelled unless the store has been cleared of it meanwhile.
C2_CancelledAfterCancelUnlessCleared ==
    \A s \in SearchIds :
        CancelFinished(s) =>
            /\ task[s].pc = "done"
            /\ s \notin active
            /\ Stored(s) => Status(s) = CANCELLED

C2_Witness ==
    \E s \in SearchIds :
        CancelFinished(s) /\ cancel[s].saw_live /\ Stored(s) /\ Status(s) = CANCELLED

\* C3: a cancel call that found the session active with a live task returns
\* the success result.
C3_CancelOfLiveTaskSucceeds ==
    \A s \in SearchIds :
        (cancel[s].pc = "done" /\ cancel[s].saw_live) => cancel[s].result = "ok"

\* C4: the number of sessions running at once never exceeds
\* max_concurrent_searches.
C4_RunningWithinCap == Cardinality(Running) <= MAX_CONCURRENT_SEARCHES

\* C7: when new_chat returns, the store holds no session, the registry no
\* task, and no search task is still running.
C7_NothingLeftWhenNewChatReturns ==
    [][(new_chat.pc # "done" /\ new_chat'.pc = "done" /\ new_chat'.result = "ok")
          => /\ \A s \in SearchIds : ~sessions'[s].stored
             /\ running_tasks' = {}
             /\ \A s \in SearchIds : task'[s].pc \in {"none", "done"}]_vars

\* C8: a new_chat call builds one session reset, and builds it only once
\* every search started before it has been cancelled and the store is
\* empty: no task of such a search is still running then, and no step
\* update or search completion of such a search is built afterwards.
C8_OneResetAfterAllCancelled ==
    [][/\ Resets' > Resets =>
            /\ Resets' = Resets + 1
            /\ \A s \in SearchIds : ~sessions'[s].stored
            /\ \A s \in SearchIds : task'[s].pc \in {"none", "done"}
       /\ \A s \in SearchIds :
             \A i \in ProgressEvents(s)' \ ProgressEvents(s) :
                 emitted'[s][i].resets = task[s].epoch]_vars

\* C9: once a stored session has status cancelled, no further step update
\* and no search completion is built for it.
C9_NoProgressEventAfterCancelled ==
    [][\A s \in SearchIds :
         (Stored(s) /\ Status(s) = CANCELLED) => ProgressEvents(s)' = ProgressEvents(s)]_vars

C9_Witness ==
    \E s \in SearchIds :
        /\ Stored(s) /\ Status(s) = CANCELLED
        /\ cancel[s].saw_live /\ cancel[s].pc = "done"
        /\ ProgressEvents(s) # {}

\* C10: a stored session in a terminal status stays exactly as it is.
C10_TerminalSessionFrozen ==
    [][\A s \in SearchIds :
         (Stored(s) /\ Status(s) \in TerminalStatus /\ sessions'[s].stored)
            => sessions'[s] = sessions[s]]_vars

\* q is strictly increasing.
Increasing(q) == \A i, j \in 1..Len(q) : i < j => q[i] < q[j]

\* C5: every subscriber receives the events of one search in the order they
\* were built, and a step update is built only with the store already
\* holding the step in the state the update reports; heartbeats and the
\* events of other searches are broadcast meanwhile.
C5_SessionEventsInProductionOrder ==
    [][\A s \in SearchIds :
         /\ \A c \in Clients : Increasing(received'[c][s])
         /\ \A i \in (Len(emitted[s]) + 1)..Len(emitted'[s]) :
               emitted'[s][i].type = "step_update" =>
                  \E j \in 1..Len(sessions'[s].steps) :
                      /\ sessions'[s].steps[j].id = emitted'[s][i].step
                      /\ sessions'[s].steps[j].status = emitted'[s][i].status]_vars

C5_Witness ==
    \E c \in Clients : \E s, s2 \in SearchIds :
        /\ s # s2
        /\ Len(received[c][s]) >= 2
        /\ received[c][s2] # <<>>
        /\ \E i \in 1..Len(emitted[0]) :
              emitted[0][i].type = "heartbeat" /\ i \in {received[c][0][k] : k \in 1..Len(received[c][0])}

\* C6: when a broadcast is over, every subscriber that was registered with
\* an open socket when it began, and still is, has received its message.
C6_BroadcastReachesEveryLiveSubscriber ==
    [][\A p \in Procs :
         (frame[p].state = "sending"
            /\ (frame'[p].state # "sending" \/ frame'[p].msg # frame[p].msg))
         => \A c \in frame[p].audience :
               (c \in connections' /\ sock'[c] = "open")
                  => \E k \in 1..Len(received'[c][frame[p].msg.sid]) :
                        received'[c][frame[p].msg.sid][k] = frame[p].msg.n]_vars

\* The events built for search s in the step being taken.
NewEvents(s) == (Len(emitted[s]) + 1)..Len(emitted'[s])

\* C16: an error event built for a stored session is marked recoverable
\* exactly when the session is not in status error or cancelled once the
\* event has been built.
C16_ErrorEventRecoverableUnlessTerminal ==
    [][\A s \in SearchIds : \A i \in NewEvents(s) :
         (emitted'[s][i].type = "error" /\ sessions'[s].stored)
            => (emitted'[s][i].recoverable <=> sessions'[s].status \notin {ERROR, CANCELLED})]_vars

\* The positions of a step list that hold the id of step.
PositionsOf(steps, step) == {i \in 1..Len(steps) : steps[i].id = step.id}

\* C15: add_step with an id the list holds overwrites the step at its
\* position and changes nothing else, with a new id it appends; the ids of
\* the list stay pairwise distinct, and the same add_step once more changes
\* nothing.
C15_AddStepOverwritesOrAppends ==
    probe.calls > 0 =>
        /\ IF PositionsOf(probe.prev, probe.step) # {}
             THEN /\ Len(probe.steps) = Len(probe.prev)
                  /\ \A i \in 1..Len(probe.prev) :
                        probe.steps[i] = IF i \in PositionsOf(probe.prev, probe.step)
                                           THEN probe.step ELSE probe.prev[i]
             ELSE probe.steps = probe.prev \o <<probe.step>>
        /\ \A i, j \in 1..Len(probe.steps) :
              probe.steps[i].id = probe.steps[j].id => i = j
        /\ add_step_to(probe.steps, probe.step) = probe.steps

C15_Witness ==
    /\ Len(probe.prev) >= 2
    /\ Len(probe.steps) >= 2
    /\ probe.steps[1] = probe.step
    /\ probe.prev[1] # probe.step
    /\ probe.prev[1].id = probe.step.id

\* C13: a stored session whose run lasted longer than SEARCH_TIMEOUT, over
\* or not, has status error with the reason timeout.
C13_TimedOutRunEndsInTimeoutError ==
    \A s \in SearchIds :
        (/\ Stored(s)
         /\ now - sessions[s].start_time > SEARCH_TIMEOUT
         /\ Status(s) = THINKING \/ sessions[s].end_time - sessions[s].start_time > SEARCH_TIMEOUT)
        => (Status(s) = ERROR /\ sessions[s].error = "timeout")

\* The characters of a text in order, "\n" between two lines.
RECURSIVE Flat(_)
Flat(text) ==
    IF Len(text) = 1 THEN text[1] ELSE text[1] \o <<"\n">> \o Flat(Tail(text))

\* The positions of the first <answer> of a response and of the first
\* </answer> after it; {} when the response has no such tag.
AnswerTag(text) ==
    LET f == Flat(text)
        opens == {i \in 1..Len(f) : f[i] = "<answer>"
                                    /\ \E j \in (i + 1)..Len(f) : f[j] = "</answer>"}
    IN IF opens = {} THEN {}
       ELSE LET i == CHOOSE k \in opens : \A m \in opens : k <= m
                j == CHOOSE k \in (i + 1)..Len(f) :
                        f[k] = "</answer>" /\ \A m \in (i + 1)..(k - 1) : f[m] # "</answer>"
            IN {<<i, j>>}

\* C20: the answer execute_search returns for a run that produced a solver
\* response is the text inside the response's <answer> tag, the whole
\* response when it has no such tag, and never the explanation or a
\* placeholder.
C20_AnswerIsTagContentOrWholeResponse ==
    (probe.calls = 1 /\ probe.result # <<>> /\ truthy(probe.result[1]))
    => LET response == probe.result[1]
           tag == AnswerTag(response)
       IN IF tag = {} THEN probe.out = response
          ELSE \E p \in tag : Flat(probe.out) = SubSeq(Flat(response), p[1] + 1, p[2] - 1)

\* C11: the replan decisions of one run never exceed max_replan_iter.
C11_ReplansWithinBudget ==
    \A s \in SearchIds : graph[s] # NoRun => graph[s].replans <= max_replan_iter

\* C18: a run whose plan list is empty once the replan budget is used up does
\* not go on: it fails with the error kind plan_unparseable_after_replan.
C18_EmptyPlanAfterBudgetFailsAsUnparseable ==
    \A s \in SearchIds :
        (graph[s] # NoRun /\ GraphEnded(graph[s])
            /\ graph[s].plan_result = 0 /\ graph[s].replans >= max_replan_iter)
        => (graph[s].node = "raised" /\ graph[s].error = "plan_unparseable_after_replan")

\* C17: a run whose stream ends without a result leaves its session in
\* error, never completed.
C17_RunWithoutResultEndsInError ==
    \A s \in SearchIds :
        (Stored(s) /\ task[s].pc = "done" /\ task[s].epoch = Resets
            /\ task[s].answer = "no_answer")
        => Status(s) = ERROR

\* How far a step status is on the way pending, running, completed or failed.
Rank(status) ==
    CASE status = "pending" -> 0
      [] status = "running" -> 1
      [] OTHER -> 2

InExecutionOrder(s) ==
    LET e == emitted[s]
        n == Len(e)
    IN /\ n >= 2
       /\ (n - 2) % 2 = 0
       /\ e[n].type = "search_complete"
       /\ e[n - 1].type = "step_update"
       /\ e[n - 1].step.node = "final_result" /\ e[n - 1].status = "completed"
       /\ \A k \in 1..((n - 2) \div 2) :
             /\ e[2 * k - 1].type = "step_update" /\ e[2 * k].type = "step_update"
             /\ e[2 * k - 1].step = [node |-> next_node(k - 1), n |-> k - 1]
             /\ e[2 * k].step = e[2 * k - 1].step
             /\ e[2 * k - 1].status = "running" /\ e[2 * k].status = "completed"

\* C19: the events of a session whose run has completed are the updates of
\* its steps in execution order, the update of the final step, and one
\* search_complete, which is the last event.
C19_CompletedRunEventsInExecutionOrder ==
    \A s \in SearchIds :
        (Stored(s) /\ Status(s) = COMPLETED) => InExecutionOrder(s)

C21_SearchCompleteAgreesWithSession ==
    [][\A s \in SearchIds : \A i \in NewEvents(s) :
         emitted'[s][i].type = "search_complete" =>
            /\ sessions'[s].stored
            /\ sessions'[s].status = COMPLETED
            /\ sessions'[s].final_answer # "none"
            /\ emitted'[s][i].result = sessions'[s].final_answer
            /\ emitted'[s][i].final_answer = sessions'[s].final_answer
            /\ emitted'[s][i].total_steps = Len(sessions'[s].steps)]_vars

\* A completed session with several steps whose last event is search_complete.
C21_Witness ==
    \E s \in SearchIds :
        /\ Stored(s) /\ Status(s) = COMPLETED /\ Len(sessions[s].steps) >= 2
        /\ Len(emitted[s]) > 0
        /\ emitted[s][Len(emitted[s])].type = "search_complete"
        /\ emitted[s][Len(emitted[s])].total_steps = Len(sessions[s].steps)

\* C22: a request naming an unknown search id is answered 404, by the status
\* route, the result route and the cancel route alike; a cancel of a stored
\* session that is not active is answered 409.
C22_UnknownIs404InactiveIs409 ==
    \A s \in SearchIds :
        /\ ~Stored(s) => /\ get_search_status_response(World, s) = HTTP_404_NOT_FOUND
                         /\ get_search_result_response(World, s) = HTTP_404_NOT_FOUND
        /\ (cancel[s].pc = "done" /\ ~cancel[s].saw_stored) =>
               cancel[s].status_code = HTTP_404_NOT_FOUND
        /\ (cancel[s].pc = "done" /\ cancel[s].saw_stored /\ ~cancel[s].saw_active) =>
               cancel[s].status_code = HTTP_409_CONFLICT

\* A submission whose query is empty, whitespace alone or longer than 1000
\* characters.
InvalidQuery(q) == q.core = 0 \/ query_len(q) > max_length
Submitted == probe'.calls = probe.calls + 1

\* C23: a submission whose query is empty, whitespace alone or longer than
\* 1000 characters is answered 400, creates no session, starts no task and
\* emits no event.
C23_InvalidQueryIs400AndInert ==
    [][(Submitted /\ InvalidQuery(probe'.query)) =>
          /\ probe'.status_code = HTTP_400_BAD_REQUEST
          /\ sessions' = sessions /\ active' = active
          /\ running_tasks' = running_tasks /\ task' = task
          /\ emitted' = emitted]_vars

\* A cancel request for s arrives after an earlier cancel of the stored
\* session s has returned.
SecondCancel(s) ==
    /\ cancel[s].pc = "done" /\ cancel[s].saw_stored
    /\ cancel'[s].calls = cancel[s].calls + 1

\* C24: cancel is idempotent: the second cancel of a session returns leaving
\* the session (its status, error, end_time and steps), the active set and
\* the registry of running tasks as the first cancel left them.
C24_SecondCancelChangesNothing ==
    [][\A s \in SearchIds : SecondCancel(s) =>
          /\ cancel'[s].pc = "done"
          /\ sessions' = sessions
          /\ active' = active
          /\ running_tasks' = running_tasks
          /\ task' = task]_vars

\* The first cancel stopped a running search and the second has returned,
\* with the session cancelled.
C24_Witness ==
    \E s \in SearchIds :
        /\ cancel[s].calls = 2 /\ cancel[s].pc = "done" /\ cancel[s].saw_stored
        /\ Stored(s) /\ Status(s) = CANCELLED /\ ~cancel[s].saw_active
        /\ sessions[s].end_time < now

\* The broadcast of coroutine p, suspended in a send, is over after the step.
BroadcastEnds(p) ==
    /\ frame[p].state = "sending"
    /\ frame'[p].state # "sending" \/ frame'[p].msg # frame[p].msg

\* C25: when a send to a subscriber fails, that subscriber is removed from
\* the registry, connection and metadata, every other subscriber stays
\* registered, and the session task that emitted the event is not aborted by
\* the failure.
C25_FailedSendRemovesOnlyThatSubscriber ==
    [][\A p \in Procs :
         (BroadcastEnds(p) /\ frame[p].disconnected_clients # {}) =>
            /\ frame[p].disconnected_clients \cap connections' = {}
            /\ frame[p].disconnected_clients \cap client_metadata' = {}
            /\ \A c \in connections \ connections' :
                  c \in frame[p].disconnected_clients \/ sock[c] # "open"
            /\ \A s \in SearchIds :
                  (p = TaskProc(s) /\ Status(s) = THINKING) => Status(s)' # ERROR]_vars

\* The messages of stream 0 built in the step now ending.
NewBroadcastEvents == (Len(emitted[0]) + 1)..Len(emitted'[0])

\* C26: on an inbound message of type ping the server sends exactly one
\* pong, and sends it to the client that pinged, to no other.
C26_PingAnsweredWithOnePong ==
    [][(probe'.calls = probe.calls + 1 /\ probe'.type = "ping") =>
          LET c == probe'.client
              pongs == {i \in NewBroadcastEvents : emitted'[0][i].type = "pong"}
          IN /\ Cardinality(pongs) = 1
             /\ \A i \in pongs :
                   /\ emitted'[0][i].client = c
                   /\ received'[c][0] = Append(received[c][0], i)
                   /\ \A d \in Clients \ {c} : received'[d] = received[d]]_vars

\* The heartbeats among the messages built in the step now ending.
NewHeartbeats == {i \in NewBroadcastEvents : emitted'[0][i].type = "heartbeat"}

\* C27: each time the interval is over the loop builds one heartbeat when a
\* subscriber is connected, a search being active or not, and builds and
\* sends nothing when none is; a broadcast that failed does not end the loop,
\* which sleeps again after every broadcast.
C27_HeartbeatEveryIntervalWhileSubscribed ==
    /\ [][heartbeat'.count = heartbeat.count + 1 =>
             IF connections # {} THEN Cardinality(NewHeartbeats) = 1
             ELSE emitted' = emitted /\ received' = received]_vars
    /\ [][NewHeartbeats # {} => heartbeat'.count = heartbeat.count + 1]_vars
    /\ [](heartbeat.pc \in {"sleep", "send"})
    /\ (heartbeat.pc = "send" ~> heartbeat.pc = "sleep")

\* A second heartbeat was built after the broadcast of the first had failed,
\* with no search active.
C27_Witness ==
    /\ heartbeat.errors = 1 /\ heartbeat.count = 2
    /\ Cardinality({i \in 1..Len(emitted[0]) : emitted[0][i].type = "heartbeat"}) = 2
    /\ active = {}

\* Client c has been sent nothing yet.
NothingSent(c) == \A k \in Streams : received[c][k] = <<>>

\* The first message of stream 0 sent to client c is the connection event
\* that carries c.
ConnectionFirst(c) ==
    /\ received[c][0] # <<>>
    /\ emitted[0][received[c][0][1]].type = "connection"
    /\ emitted[0][received[c][0][1]].client = c

\* C28: the first message sent to a subscriber is the connection event with
\* its client id: a step that sends to a client sent nothing so far sends it
\* that event alone, and every other send finds it sent already, whatever
\* broadcast is under way.
C28_ConnectionEventIsFirst ==
    [][\A c \in Clients :
         received'[c] # received[c] =>
            IF NothingSent(c)
              THEN /\ ConnectionFirst(c)'
                   /\ Len(received'[c][0]) = 1
                   /\ \A k \in Streams \ {0} : received'[c][k] = <<>>
              ELSE ConnectionFirst(c)]_vars

\* A client accepted while a broadcast was sending to another has received
\* its connection event and then an event of the search.
C28_Witness ==
    \E c \in Clients, p \in Procs, k \in Streams \ {0} :
        /\ frame[p].state = "sending" /\ c \notin frame[p].audience
        /\ c \in connections /\ sock[c] = "open" /\ ConnectionFirst(c)
        /\ received[c][k] # <<>>

\* The links of the dict entries of all steps, walked step by step and
\* source by source; absent and empty links left out.
RECURSIVE WalkLinks(_)
WalkLinks(steps) ==
    IF steps = <<>> THEN <<>>
    ELSE SelectSeq([i \in 1..Len(Head(steps)) |-> Head(steps)[i].link],
                   LAMBDA l : l # NoLink /\ l # "") \o WalkLinks(Tail(steps))

FirstSeen(walk, l) == CHOOSE i \in 1..Len(walk) : walk[i] = l /\ \A j \in 1..(i - 1) : walk[j] # l

\* C29: the aggregated sources hold every link of the steps once and no
\* other, in the order in which the links are first seen walking the steps
\* in order and each step's sources in order.
C29_SourcesUniqueInFirstSeenOrder ==
    probe.calls = 1 =>
        LET walk == WalkLinks(probe.steps)
            out == probe.sources
        IN /\ \A i, j \in 1..Len(out) : i # j => out[i] # out[j]
           /\ {out[i] : i \in 1..Len(out)} = {walk[i] : i \in 1..Len(walk)}
           /\ \A i, j \in 1..Len(out) :
                 i < j => FirstSeen(walk, out[i]) < FirstSeen(walk, out[j])

\* Two steps share a link, and the second brings a new one after it: the
\* result holds the shared link once, before the new one.
C29_Witness ==
    /\ probe.calls = 1
    /\ Len(probe.steps) = 2
    /\ Len(probe.steps[1]) = 2 /\ Len(probe.steps[2]) = 2
    /\ probe.steps[1][2].link = "b" /\ probe.steps[2][1].link = "b"
    /\ probe.steps[2][2].link = "a" /\ probe.steps[1][1].link = ""
    /\ probe.sources = <<"b", "a">>

Dispatch(s) == graph[s] # NoRun /\ graph'[s].node = "search" /\ graph[s].node # "search"

\* C31: the queries of a plan are handed to search one at a time and in plan
\* order, each at most once: a query is dispatched by master alone, the
\* first right after the plan and every other after the search result of the
\* one before it has become the last message; and the answer-or-replan prompt
\* is given only when every query of the plan has been dispatched and has
\* returned.
C31_PlanStepsOneAtATimeInOrder ==
    /\ [][\A s \in SearchIds : Dispatch(s) =>
             /\ graph[s].node = "master"
             /\ graph[s].last = IF graph[s].dispatched = <<>> THEN "plan_result"
                                ELSE "search_result"]_vars
    /\ [](\A s \in SearchIds : graph[s] # NoRun =>
             /\ Len(graph[s].dispatched) <= graph[s].plan_result \/ graph[s].dispatched = <<>>
             /\ \A i \in 1..Len(graph[s].dispatched) : graph[s].dispatched[i] = i - 1
             /\ graph[s].last = "prompt" => Len(graph[s].dispatched) = graph[s].plan_result)

\* A plan of two queries has been worked through and master is asked to
\* answer or replan.
C31_Witness ==
    \E s \in SearchIds :
        /\ graph[s] # NoRun /\ graph[s].node = "master" /\ graph[s].last = "prompt"
        /\ graph[s].plan_result = 2 /\ graph[s].dispatched = <<0, 1>>

\* C32: once the replan counter has reached max_replan_iter, a request to
\* replan neither sends the run to plan again nor raises the counter.
C32_NoReplanBeyondBudget ==
    [][\A s \in SearchIds :
         (graph[s] # NoRun /\ graph[s].node = "master"
             /\ graph[s].replan_count >= max_replan_iter) =>
            /\ graph'[s].replan_count <= graph[s].replan_count
            /\ ~(graph'[s].node = "plan" /\ graph'[s].needs_replan)]_vars

\* C33: nothing is sent to a subscriber that is no longer registered: every
\* step that hands a message to a client's socket finds the client in the
\* registry, or is the accept that registers it; so a subscriber removed
\* while a broadcast is under way gets neither that event nor a later one.
C33_NoSendAfterRemoval ==
    [][\A c \in Clients :
         received'[c] # received[c] =>
            \/ c \in connections
            \/ c = next_client + 1 /\ next_client' = c]_vars

\* A subscriber with an open socket was removed while a heartbeat was being
\* broadcast, and the broadcast ended without reaching it.
C33_Witness ==
    \E c \in Clients :
        /\ c \notin connections /\ sock[c] = "open" /\ endpoint[c] = "listening"
        /\ heartbeat.errors = 1 /\ heartbeat.pc = "sleep"
        /\ \A i \in 1..Len(received[c][0]) : emitted[0][received[c][0][i]].type # "heartbeat"

\* C34: handling a message from a client, whatever its kind, changes neither
\* the registry nor the sessions and leaves the connection as it was: the
\* client stays registered, its endpoint listening, its socket open.
C34_InboundMessageChangesNothing ==
    [][probe'.calls = probe.calls + 1 =>
          /\ connections' = connections
          /\ client_metadata' = client_metadata
          /\ sessions' = sessions /\ active' = active
          /\ endpoint' = endpoint /\ sock' = sock]_vars

\* The cleanup task sweeps in the step now ending.
Sweeps == cleanup'.wake # cleanup.wake

\* C35: a sweep removes a session only if its status is completed, error or
\* cancelled and its end_time lies more than the timeout back; every other
\* session is left as it is, and no removed session is in the active set
\* afterwards.
C35_SweepRemovesOnlyOldTerminalSessions ==
    [][Sweeps => \A s \in SearchIds :
          IF Stored(s) /\ ~Stored(s)'
            THEN /\ Status(s) \in TerminalStatus
                 /\ sessions[s].end_time >= 0
                 /\ now - sessions[s].end_time > session_timeout
                 /\ s \notin active'
            ELSE sessions'[s] = sessions[s] /\ (s \in active' <=> s \in active)]_vars

\* The sweeps have left a session alone while it was running and while it
\* was terminal and young, and a later sweep has removed it.
C35_Witness ==
    \E s \in SearchIds :
        /\ ~Stored(s) /\ task[s].pc = "done" /\ task[s].outcome = "returned"
        /\ cleanup.removed = 1
        /\ cleanup.wake = 2 * cleanup_interval + session_timeout + cleanup_interval

\* C36: a search id is in the active set exactly when its session is stored
\* with a status that is not terminal, and every stored session with a
\* terminal status has its end_time and its duration_seconds set.
C36_ActiveIffStoredAndNotTerminal ==
    \A s \in SearchIds :
        /\ s \in active <=> (Stored(s) /\ Status(s) \notin TerminalStatus)
        /\ (Stored(s) /\ Status(s) \in TerminalStatus) =>
               /\ sessions[s].end_time >= 0
               /\ sessions[s].duration_seconds >= 0

\* A search that ran for a while was cancelled: its session is stored with
\* its end and duration, and the active set is empty.
C36_Witness ==
    \E s \in SearchIds :
        /\ Stored(s) /\ Status(s) = CANCELLED /\ s \notin active
        /\ sessions[s].end_time > 0 /\ sessions[s].duration_seconds > 0

\* ------------------------------------------- two searches in one adapter

\* Searches started one after the other or side by side in the one
\* DeepSearchAdapter of the service; the graph reports the results of the
\* LLM steps of each plan in master events and then ends.
NextShared ==
    \/ StartSearch(MaxSearches)
    \/ \E s \in SearchIds : TaskStart(s)
    \/ \E s \in SearchIds : TaskMaster(s, MaxLlmSteps)
    \/ \E s \in SearchIds : TaskWake(s)
    \/ \E s \in SearchIds : TaskStreamEnd(s)

SpecShared == Init /\ [][NextShared]_vars

\* The step ids a search running alone stores for the first k LLM steps of
\* its plan: when the event of step j arrives the counter and the set both
\* stand at j - 1.
RECURSIVE AloneLlmIds(_, _)
AloneLlmIds(k, j) ==
    IF j > k THEN <<>>
    ELSE <<[node |-> "llm", n |-> (j - 1) + (j - 1)]>> \o AloneLlmIds(k, j + 1)

\* The ids of the steps stored for search s, in order.
StepIds(s) == [i \in 1..Len(sessions[s].steps) |-> sessions[s].steps[i].id]

\* C37: the steps stored for a session are those of its run alone: whatever
\* other searches do at the same time, the ids of its steps are, in order,
\* the ids the same events give a search that runs alone, with the final
\* step after them when the stream ended with a result.
C37_StepsAsWhenRunningAlone ==
    \A s \in SearchIds :
        Stored(s) =>
            \E k \in 0..MaxLlmSteps :
                \/ StepIds(s) = AloneLlmIds(k, 1)
                \/ StepIds(s) = Append(AloneLlmIds(k, 1), [node |-> "final_result", n |-> k])

\* C38: whenever a stored session is in a terminal status, none of its steps
\* is running or pending, wherever the run stood in the processing of a step
\* when it completed, failed or was cancelled.
C38_TerminalSessionHasNoOpenStep ==
    \A s \in SearchIds :
        Stored(s) /\ Status(s) \in TerminalStatus =>
            \A i \in 1..Len(sessions[s].steps) :
                sessions[s].steps[i].status \notin {"running", "pending"}

\* C39: a stored session has a final answer exactly when its status is
\* completed: no session in error, cancelled or still running carries one,
\* and every completed session carries one.
C39_FinalAnswerIffCompleted ==
    \A s \in SearchIds :
        Stored(s) => ((sessions[s].final_answer # "none") <=> (Status(s) = COMPLETED))

\* C40: every stored session whose status is running has an unfinished task
\* registered in the running-task registry: no session stays running after
\* its task has ended or has left the registry.
C40_RunningSessionHasLiveTask ==
    \A s \in SearchIds :
        Stored(s) /\ Status(s) = THINKING => s \in running_tasks /\ task[s].pc # "done"

====
